---- MODULE Spec2Model ----
(***************************************************************************)
(* go-mem-ledger: the in-memory ledger engines (MutexLedger, LMAXLedger),  *)
(* the write-ahead log (pkg/wal) and recovery from the log, as a state     *)
(* machine.  One caller step per action; a crash may fall between any two  *)
(* steps.                                                                  *)
(***************************************************************************)
EXTENDS Integers, Sequences, FiniteSets, TLC

(***************************************************************************)
(* Bounds of the model.                                                    *)
(***************************************************************************)
\* int64 is modelled as a two's complement integer of IntBits bits.
IntBits == 9
\* number of PostTransaction calls started in one behaviour
MaxPosts == 2
\* number of crashes in one behaviour
MaxCrashes == 1
\* capacity of transactionChan (1000 in the source), scaled down
QueueCap == 1
\* number of lines of a WAL file found at start-up
MaxWalLen == 3
\* number of posts in a stream given to both engines
MaxStream == 2

RECURSIVE Pow2(_)
Pow2(n) == IF n = 0 THEN 1 ELSE 2 * Pow2(n - 1)

Modulus == Pow2(IntBits)
MaxInt == Pow2(IntBits - 1) - 1
MinInt == 0 - Pow2(IntBits - 1)

\* Go's int64 arithmetic wraps around silently.
Wrap(x) == ((x - MinInt) % Modulus) + MinInt

Procs == {"p1", "p2"}
NoProc == "none"

(***************************************************************************)
(* domain: errors, transaction types, Transaction, Account                 *)
(***************************************************************************)
Nil == "nil"
ErrAmountMustBePositive == "amount must be positive"
ErrInsufficientBalance == "insufficient balance"
ErrAccountNotFound == "account not found"
ErrWALWriteFailed == "wal write failed"
ErrMalformedRecord == "json: cannot unmarshal string into Go value of type domain.Transaction"
ErrUnexpectedEOF == "unexpected EOF"

BusinessErrors == {ErrAmountMustBePositive, ErrInsufficientBalance, ErrAccountNotFound}

TransactionTypeDeposit == 1
TransactionTypeWithdraw == 2
TransactionTypeTransfer == 3
\* a Type value outside the enumeration (TransactionType is a bare uint8)
TransactionTypeUnknown == 0

Transaction(id, type, from, to, amount) ==
    [Sequence |-> 0, From |-> from, To |-> to, Amount |-> amount,
     CreatedAt |-> 0, TransactionID |-> id, Type |-> type]

NoTx == [Sequence |-> 0, From |-> 0, To |-> 0, Amount |-> 0,
         CreatedAt |-> 0, TransactionID |-> "", Type |-> TransactionTypeUnknown]

\* Account.Deposit on a balance: the error and the balance afterwards
AccountDeposit(balance, amount) ==
    IF amount < 0
    THEN [err |-> ErrAmountMustBePositive, Balance |-> balance]
    ELSE [err |-> Nil, Balance |-> Wrap(balance + amount)]

\* mutant: a withdrawal of the whole balance is refused
AccountWithdrawStrict(balance, amount) ==
    IF amount < 0
    THEN [err |-> ErrAmountMustBePositive, Balance |-> balance]
    ELSE IF balance <= amount
         THEN [err |-> ErrInsufficientBalance, Balance |-> balance]
         ELSE [err |-> Nil, Balance |-> Wrap(balance - amount)]

\* mutant: the balance check is missing
AccountWithdrawUnchecked(balance, amount) ==
    IF amount < 0
    THEN [err |-> ErrAmountMustBePositive, Balance |-> balance]
    ELSE [err |-> Nil, Balance |-> Wrap(balance - amount)]

\* Account.Withdraw on a balance: the error and the balance afterwards
AccountWithdraw(balance, amount) ==
    IF amount < 0
    THEN [err |-> ErrAmountMustBePositive, Balance |-> balance]
    ELSE IF balance < amount
         THEN [err |-> ErrInsufficientBalance, Balance |-> balance]
         ELSE [err |-> Nil, Balance |-> Wrap(balance - amount)]

\* the total of all balances, as a mathematical integer
RECURSIVE SumOver(_, _)
SumOver(accts, ids) ==
    IF ids = {} THEN 0
    ELSE LET a == CHOOSE x \in ids : TRUE
         IN  accts[a] + SumOver(accts, ids \ {a})

SumBalances(accts) == SumOver(accts, DOMAIN accts)

(***************************************************************************)
(* The handlers shared (textually) by MutexLedger and LMAXLedger.  Each    *)
(* takes the account map and returns the error and the map afterwards.     *)
(***************************************************************************)
handleDeposit(accts, tran) ==
    IF tran.To \notin DOMAIN accts
    THEN [err |-> ErrAccountNotFound, accounts |-> accts]
    ELSE LET r == AccountDeposit(accts[tran.To], tran.Amount)
         IN  [err |-> r.err, accounts |-> [accts EXCEPT ![tran.To] = r.Balance]]

handleWithdraw(accts, tran) ==
    IF tran.From \notin DOMAIN accts
    THEN [err |-> ErrAccountNotFound, accounts |-> accts]
    ELSE LET r == AccountWithdraw(accts[tran.From], tran.Amount)
         IN  [err |-> r.err, accounts |-> [accts EXCEPT ![tran.From] = r.Balance]]

\* mutant: the source is debited before the destination is looked up
handleTransferDebitFirst(accts, tran) ==
    IF tran.From \notin DOMAIN accts
    THEN [err |-> ErrAccountNotFound, accounts |-> accts]
    ELSE LET r == AccountWithdraw(accts[tran.From], tran.Amount)
         IN  IF r.err = Nil /\ tran.To \notin DOMAIN accts
             THEN [err |-> ErrAccountNotFound,
                   accounts |-> [accts EXCEPT ![tran.From] = r.Balance]]
             ELSE [err |-> r.err, accounts |-> [accts EXCEPT ![tran.From] = r.Balance]]

\* handleTransfer up to and including fromAccount.Withdraw
handleTransferDebit(accts, tran) ==
    IF tran.From \notin DOMAIN accts
    THEN [err |-> ErrAccountNotFound, accounts |-> accts]
    ELSE IF tran.To \notin DOMAIN accts
         THEN [err |-> ErrAccountNotFound, accounts |-> accts]
         ELSE LET r == AccountWithdraw(accts[tran.From], tran.Amount)
              IN  [err |-> r.err, accounts |-> [accts EXCEPT ![tran.From] = r.Balance]]

\* mutant: the credit is refused, after the debit, when it would leave the range
handleTransferCreditChecked(accts, tran) ==
    IF accts[tran.To] + tran.Amount > MaxInt
    THEN [err |-> ErrAmountMustBePositive, accounts |-> accts]
    ELSE LET r == AccountDeposit(accts[tran.To], tran.Amount)
         IN  [err |-> r.err, accounts |-> [accts EXCEPT ![tran.To] = r.Balance]]

\* mutant: the credit is computed from the balance read before the debit
handleTransferCreditStale(accts, tran) ==
    LET before == IF tran.From = tran.To THEN accts[tran.To] + tran.Amount
                  ELSE accts[tran.To]
        r == AccountDeposit(before, tran.Amount)
    IN  [err |-> r.err, accounts |-> [accts EXCEPT ![tran.To] = r.Balance]]

\* handleTransfer's last statement, toAccount.Deposit
handleTransferCredit(accts, tran) ==
    LET r == AccountDeposit(accts[tran.To], tran.Amount)
    IN  [err |-> r.err, accounts |-> [accts EXCEPT ![tran.To] = r.Balance]]

handleTransfer(accts, tran) ==
    LET d == handleTransferDebit(accts, tran)
    IN  IF d.err # Nil THEN d ELSE handleTransferCredit(d.accounts, tran)

(***************************************************************************)
(* pkg/wal.  The file is the sequence of its lines; synced is the number   *)
(* of leading lines a successful file.Sync() has covered.                  *)
(***************************************************************************)
\* json.Encoder.Encode of a Transaction: one JSON document per line.  The
\* struct has no tags, so the keys are the field names; the UUID is written
\* in its text form and the type as a number.
JSONEncode(tran) ==
    [json |-> "object",
     Sequence |-> tran.Sequence, From |-> tran.From, To |-> tran.To,
     Amount |-> tran.Amount, CreatedAt |-> tran.CreatedAt,
     TransactionID |-> <<"uuid", tran.TransactionID>>, Type |-> tran.Type]

\* what else a line of the file may hold: a record cut short by a crash or a
\* short write (not a complete JSON value), and a complete JSON value that is
\* not a Transaction object (a JSON string)
TruncatedLine == [JSONEncode(NoTx) EXCEPT !.json = "truncated"]
StringLine == [JSONEncode(NoTx) EXCEPT !.json = "string"]

\* decoder.Decode(&raw): the next complete JSON value of the stream, raw
DecoderDecode(line) ==
    IF line.json = "truncated"
    THEN [err |-> ErrUnexpectedEOF, raw |-> line]
    ELSE [err |-> Nil, raw |-> line]

\* json.Unmarshal(jsonRaw, &tran)
JSONUnmarshal(line) ==
    IF line.json = "object"
    THEN [err |-> Nil,
          tran |-> [Sequence |-> line.Sequence, From |-> line.From, To |-> line.To,
                    Amount |-> line.Amount, CreatedAt |-> line.CreatedAt,
                    TransactionID |-> line.TransactionID[2], Type |-> line.Type]]
    ELSE [err |-> ErrMalformedRecord, tran |-> NoTx]

WriteOutcomes == {"ok", "encodeErr", "syncErr"}
SyncOutcomes == {"ok", "syncErr"}

\* mutant: a record that does not decode is skipped and reading goes on
RECURSIVE ReadAllSkipMalformed(_, _, _)
ReadAllSkipMalformed(file, tranHistory, visited) ==
    IF file = << >>
    THEN [err |-> Nil, tranHistory |-> tranHistory, visited |-> visited]
    ELSE LET d == JSONUnmarshal(Head(file))
         IN  IF d.err # Nil
             THEN ReadAllSkipMalformed(Tail(file), tranHistory, visited)
             ELSE ReadAllSkipMalformed(Tail(file), Append(tranHistory, d.tran),
                                       Append(visited, Head(file)))

\* mutant: the history is built back to front
RECURSIVE ReadAllLastFirst(_, _, _)
ReadAllLastFirst(file, tranHistory, visited) ==
    IF file = << >>
    THEN [err |-> Nil, tranHistory |-> tranHistory, visited |-> visited]
    ELSE LET raw == DecoderDecode(Head(file))
         IN  IF raw.err # Nil
             THEN [err |-> raw.err, tranHistory |-> tranHistory, visited |-> visited]
             ELSE LET d == JSONUnmarshal(raw.raw)
                  IN  IF d.err # Nil
                      THEN [err |-> d.err, tranHistory |-> tranHistory,
                            visited |-> <<raw.raw>> \o visited]
                      ELSE ReadAllLastFirst(Tail(file), <<d.tran>> \o tranHistory,
                                            <<raw.raw>> \o visited)

\* mutant: the error of file.Sync() is dropped
WALWriteSyncErrDropped(file, nsynced, v, outcome) ==
    IF outcome = "encodeErr"
    THEN [err |-> "encode failed", file |-> file, synced |-> nsynced]
    ELSE LET f == Append(file, JSONEncode(v))
         IN  [err |-> Nil, file |-> f,
              synced |-> IF outcome = "syncErr" THEN nsynced ELSE Len(f)]

\* WAL.Write: Encode (appends the line), then file.Sync()
WALWrite(file, nsynced, v, outcome) ==
    IF outcome = "encodeErr"
    THEN [err |-> "encode failed", file |-> file, synced |-> nsynced]
    ELSE LET f == Append(file, JSONEncode(v))
         IN  IF outcome = "syncErr"
             THEN [err |-> "sync failed", file |-> f, synced |-> nsynced]
             ELSE [err |-> Nil, file |-> f, synced |-> Len(f)]

\* WAL.Flush, the separate durability barrier MutexLedger calls after Write
WALFlush(file, nsynced, outcome) ==
    IF outcome = "syncErr"
    THEN [err |-> "sync failed", synced |-> nsynced]
    ELSE [err |-> Nil, synced |-> Len(file)]

\* WAL.ReadAll with the visitor of recoverFromWAL, from offset zero to EOF:
\* the raw records handed to the visitor, the history the visitor decoded,
\* and the first error of the decoder or of the visitor
RECURSIVE ReadAll(_, _, _)
ReadAll(file, tranHistory, visited) ==
    IF file = << >>
    THEN [err |-> Nil, tranHistory |-> tranHistory, visited |-> visited]
    ELSE LET raw == DecoderDecode(Head(file))
         IN  IF raw.err # Nil
             THEN [err |-> raw.err, tranHistory |-> tranHistory, visited |-> visited]
             ELSE LET d == JSONUnmarshal(raw.raw)
                  IN  IF d.err # Nil
                      THEN [err |-> d.err, tranHistory |-> tranHistory,
                            visited |-> Append(visited, raw.raw)]
                      ELSE ReadAll(Tail(file), Append(tranHistory, d.tran),
                                   Append(visited, raw.raw))

(***************************************************************************)
(* Recovery: recoverFromWAL and applyRecoverTransaction, identical in the  *)
(* two ledgers.                                                            *)
(***************************************************************************)
\* mutant: the replay applies the record and does not record its id
applyRecoverTransactionNoRecord(accts, processed, tran) ==
    LET r == IF tran.Type = TransactionTypeDeposit THEN handleDeposit(accts, tran)
             ELSE IF tran.Type = TransactionTypeWithdraw THEN handleWithdraw(accts, tran)
             ELSE IF tran.Type = TransactionTypeTransfer THEN handleTransfer(accts, tran)
             ELSE [err |-> Nil, accounts |-> accts]
    IN  [err |-> r.err, accounts |-> r.accounts, processed |-> processed]

\* applyRecoverTransaction: no WAL write, no probe of processedTransactions
applyRecoverTransaction(accts, processed, tran) ==
    LET r == IF tran.Type = TransactionTypeDeposit THEN handleDeposit(accts, tran)
             ELSE IF tran.Type = TransactionTypeWithdraw THEN handleWithdraw(accts, tran)
             ELSE IF tran.Type = TransactionTypeTransfer THEN handleTransfer(accts, tran)
             ELSE [err |-> Nil, accounts |-> accts]
    IN  [err |-> r.err, accounts |-> r.accounts,
         processed |-> IF r.err = Nil THEN processed \cup {tran.TransactionID}
                       ELSE processed]

\* the loop "for _, tran := range tranHistory": stops at the first error
RECURSIVE RecoverLoop(_, _, _)
RecoverLoop(accts, processed, tranHistory) ==
    IF tranHistory = << >>
    THEN [err |-> Nil, accounts |-> accts, processed |-> processed]
    ELSE LET r == applyRecoverTransaction(accts, processed, Head(tranHistory))
         IN  IF r.err # Nil THEN r
             ELSE RecoverLoop(r.accounts, r.processed, Tail(tranHistory))

recoverFromWAL(accts, file) ==
    LET h == ReadAll(file, << >>, << >>)
    IN  IF h.err # Nil
        THEN [err |-> h.err, accounts |-> accts, processed |-> {}]
        ELSE RecoverLoop(accts, {}, h.tranHistory)

(***************************************************************************)
(* Inputs                                                                  *)
(***************************************************************************)
TxIds == {"A", "B"}
AllIds == {"A", "B", "C"}

\* the seed loaded from the users table: account id -> balance
Seed == (1 :> 1) @@ (2 :> 2)

\* what callers post: a plain deposit, a deposit that overflows, a transfer
\* and an exact withdraw under id A; under id B the same withdraw
\* (insufficient once the other went through), a deposit to an unknown
\* account and a withdraw of a negative amount
TxInputs ==
    { Transaction("A", TransactionTypeDeposit, 0, 1, 1),
      Transaction("A", TransactionTypeDeposit, 0, 1, MaxInt),
      Transaction("A", TransactionTypeTransfer, 1, 2, 1),
      Transaction("A", TransactionTypeWithdraw, 2, 0, 2),
      Transaction("B", TransactionTypeWithdraw, 2, 0, 2),
      Transaction("B", TransactionTypeDeposit, 0, 3, 1),
      Transaction("B", TransactionTypeWithdraw, 1, 0, 0 - 1) }

\* posts whose amount is zero or negative, one of each type, on existing
\* accounts
AmountInputs ==
    { Transaction("A", TransactionTypeDeposit, 0, 1, 0),
      Transaction("A", TransactionTypeWithdraw, 1, 0, 0),
      Transaction("A", TransactionTypeTransfer, 1, 2, 0),
      Transaction("B", TransactionTypeDeposit, 0, 1, 0 - 1),
      Transaction("B", TransactionTypeWithdraw, 1, 0, 0 - 1),
      Transaction("B", TransactionTypeTransfer, 1, 2, 0 - 1) }

\* the lines a WAL file found at start-up is made of: the records of a
\* deposit, of a withdraw that empties its account (a second replay of it
\* fails) and of a deposit to an account the seed does not have, and the two
\* malformed lines
WalLines ==
    { JSONEncode(Transaction("A", TransactionTypeDeposit, 0, 1, 1)),
      JSONEncode(Transaction("B", TransactionTypeWithdraw, 2, 0, 2)),
      JSONEncode(Transaction("C", TransactionTypeDeposit, 0, 3, 1)),
      TruncatedLine,
      StringLine }

WalFiles == UNION { [1 .. n -> WalLines] : n \in 0 .. MaxWalLen }

\* what the producers post while the context of Start is cancelled
ShutdownInputs ==
    { Transaction("A", TransactionTypeDeposit, 0, 1, 1),
      Transaction("B", TransactionTypeTransfer, 1, 2, 1) }

\* the end-to-end scenario of the specification: seed and script
ScenarioSeed == (1 :> 100) @@ (2 :> 50)

Script ==
    << Transaction("A", TransactionTypeDeposit, 0, 1, 25),
       Transaction("B", TransactionTypeWithdraw, 2, 0, 60),
       Transaction("B", TransactionTypeWithdraw, 2, 0, 50),
       Transaction("B", TransactionTypeWithdraw, 2, 0, 50),
       Transaction("C", TransactionTypeTransfer, 1, 2, 75) >>

(***************************************************************************)
(* State                                                                   *)
(***************************************************************************)
VARIABLES
    engine,                 \* "Mutex" or "LMAX": which ledger main constructs
    seed,                   \* the accounts handed to the constructor
    status,                 \* "running", "crashed", or "failed" (constructor returned an error)
    accounts,               \* ledger.accounts: id -> Balance
    processedTransactions,  \* ledger.processedTransactions (its key set)
    walFile,                \* the lines of the WAL file
    walSynced,              \* leading lines covered by a successful Sync
    walErr,                 \* the error the last WAL call of the post in hand returned
    mu,                     \* MutexLedger.mu: the writer holding it, or NoProc
    pc,                     \* each caller's position in PostTransaction
    tx,                     \* each caller's transaction
    result,                 \* the error each caller is about to return
    transactionChan,        \* LMAXLedger.transactionChan
    resultChan,             \* the Result channel of each caller's request
    runLoop,                \* LMAXLedger.run: "run", "drain" or "exited"
    runPc,                  \* position of run inside processTransaction
    runReq,                 \* the request run is processing
    ctxDone,                \* the context of Start has been cancelled
    chanCap,                \* cap(transactionChan)
    posts,                  \* history: PostTransaction calls started
    crashes,                \* history: crashes so far
    ackedOk,                \* history: ids of posts that returned nil
    mutations,              \* history: per id, posts of this lifetime that changed a balance
    snapshot,               \* history: the ledger at the last crash
    sumBefore,              \* history: total balance before the transfer in hand
    walFaulted,             \* history: some WAL call has returned an error
    pendingAtShutdown,      \* history: the requests queued when the context was cancelled
    scriptPos,              \* scenario: next script entry (0 when no script runs)
    log,                    \* scenario: result and post-state of each script entry
    script,                 \* scenario: the stream the callers post, one after the other
    firstRun,               \* scenario: what the stream gave on the engine that ran it first
    readerPc,               \* each reader's position in GetAccountBalance
    dbTx,                   \* MySQLLedger: each caller's open database transaction
    callerCtxDone,          \* the context a caller passed to PostTransaction is cancelled
    requestPool,            \* LMAXLedger.requestPool: the envelopes Put back and not taken
    req                     \* the envelope each caller got from requestPool

ledgerVars == <<accounts, processedTransactions>>
walVars == <<walFile, walSynced, walErr>>
callerVars == <<mu, pc, tx, result>>
lmaxVars == <<transactionChan, resultChan, runLoop, runPc, runReq, ctxDone, chanCap>>
histVars == <<posts, crashes, ackedOk, mutations, snapshot, sumBefore, walFaulted,
              pendingAtShutdown, scriptPos, log>>
sideVars == <<script, firstRun, readerPc, dbTx, callerCtxDone, requestPool, req>>
vars == <<engine, seed, status, ledgerVars, walVars, callerVars, lmaxVars, histVars,
          sideVars>>

NoReq == [Tx |-> NoTx, owner |-> NoProc]
NoSnapshot == [accounts |-> << >>, processed |-> {}, quiescent |-> FALSE, clean |-> FALSE]
Readers == {"r1"}
\* the transactionRequest values requestPool.New can make
Envelopes == {"e1", "e2", "e3"}
NoEnvelope == "none"
NoRun == [ran |-> FALSE, log |-> << >>, accounts |-> << >>, processed |-> {},
          walFile |-> << >>]
\* no database transaction open: no row locked, nothing loaded, nothing inserted
NoDbTx == [locked |-> {}, next |-> 1, userMap |-> << >>, inserted |-> FALSE]

InitCommon ==
    /\ status = "running"
    /\ accounts = seed
    /\ processedTransactions = {}
    /\ walFile = << >>
    /\ walSynced = 0
    /\ walErr = Nil
    /\ mu = NoProc
    /\ pc = [p \in Procs |-> "idle"]
    /\ tx = [p \in Procs |-> NoTx]
    /\ result = [p \in Procs |-> Nil]
    /\ transactionChan = << >>
    /\ resultChan = [p \in Procs |-> << >>]
    /\ runLoop = "run"
    /\ runPc = "select"
    /\ runReq = NoReq
    /\ ctxDone = FALSE
    /\ posts = 0
    /\ crashes = 0
    /\ ackedOk = {}
    /\ mutations = [id \in AllIds |-> 0]
    /\ snapshot = NoSnapshot
    /\ sumBefore = 0
    /\ walFaulted = FALSE
    /\ pendingAtShutdown = << >>
    /\ log = << >>
    /\ firstRun = NoRun
    /\ readerPc = [r \in Readers |-> "idle"]
    /\ dbTx = [p \in Procs |-> NoDbTx]
    /\ callerCtxDone = [p \in Procs |-> FALSE]
    /\ requestPool = {}
    /\ req = [p \in Procs |-> NoEnvelope]

\* a fresh node: empty WAL, the constructor has replayed nothing
Init ==
    /\ engine \in {"Mutex", "LMAX"}
    /\ seed = Seed
    /\ scriptPos = 0
    /\ script = << >>
    /\ chanCap = QueueCap
    /\ InitCommon

(***************************************************************************)
(* A caller enters PostTransaction.  With a script running, the callers    *)
(* post its entries one after the other; otherwise any input.              *)
(***************************************************************************)
CanPost(p, t) ==
    /\ status = "running"
    /\ pc[p] = "idle"
    /\ posts < MaxPosts \/ scriptPos > 0
    /\ IF scriptPos = 0
       THEN TRUE
       ELSE /\ scriptPos <= Len(script)
            /\ t = script[scriptPos]
            /\ \A q \in Procs : pc[q] = "idle"

Posted == IF scriptPos = 0 THEN posts + 1 ELSE posts

\* history: a post with this id changed a balance
Mutated(id, before, after) ==
    IF before = after THEN mutations
    ELSE [mutations EXCEPT ![id] = IF @ < 2 THEN @ + 1 ELSE @]

\* PostTransaction returns err to its caller
Returned(p, err) ==
    /\ ackedOk' = IF err = Nil THEN ackedOk \cup {tx[p].TransactionID} ELSE ackedOk
    /\ IF scriptPos = 0
       THEN UNCHANGED <<scriptPos, log>>
       ELSE /\ scriptPos' = scriptPos + 1
            /\ log' = Append(log, [result |-> err, accounts |-> accounts,
                                   II |-> processedTransactions])
    /\ pc' = [pc EXCEPT ![p] = "idle"]
    /\ tx' = [tx EXCEPT ![p] = NoTx]
    /\ result' = [result EXCEPT ![p] = Nil]

(***************************************************************************)
(* MutexLedger.PostTransaction / postTransactionInternal                   *)
(***************************************************************************)
\* mutant: the lock excludes nobody
MutexLockNoExclusion(p, t) ==
    /\ engine = "Mutex"
    /\ CanPost(p, t)
    /\ mu' = p
    /\ pc' = [pc EXCEPT ![p] = "probe"]
    /\ tx' = [tx EXCEPT ![p] = t]
    /\ posts' = Posted
    /\ UNCHANGED <<engine, seed, sideVars, status, ledgerVars, walVars, result, lmaxVars,
                   crashes, ackedOk, mutations, snapshot, sumBefore, walFaulted,
                   pendingAtShutdown, scriptPos, log>>

\* m.mu.Lock(): no writer and no reader holds mu
MutexLock(p, t) ==
    /\ engine = "Mutex"
    /\ CanPost(p, t)
    /\ mu = NoProc
    /\ \A r \in Readers : readerPc[r] = "idle"
    /\ mu' = p
    /\ pc' = [pc EXCEPT ![p] = "probe"]
    /\ tx' = [tx EXCEPT ![p] = t]
    /\ posts' = Posted
    /\ UNCHANGED <<engine, seed, sideVars, status, ledgerVars, walVars, result, lmaxVars,
                   crashes, ackedOk, mutations, snapshot, sumBefore, walFaulted, pendingAtShutdown,
                   scriptPos, log>>

\* mutant: no probe, every post goes on to the WAL
MutexProbeMissing(p) ==
    /\ engine = "Mutex" /\ status = "running" /\ pc[p] = "probe"
    /\ pc' = [pc EXCEPT ![p] = "write"]
    /\ UNCHANGED <<engine, seed, sideVars, status, ledgerVars, walVars, mu, tx, result,
                   lmaxVars, histVars>>

\* the probe of processedTransactions
MutexProbe(p) ==
    /\ engine = "Mutex" /\ status = "running" /\ pc[p] = "probe"
    /\ IF tx[p].TransactionID \in processedTransactions
       THEN /\ result' = [result EXCEPT ![p] = Nil]
            /\ pc' = [pc EXCEPT ![p] = "ret"]
       ELSE /\ pc' = [pc EXCEPT ![p] = "write"]
            /\ UNCHANGED result
    /\ UNCHANGED <<engine, seed, sideVars, status, ledgerVars, walVars, mu, tx, lmaxVars, histVars>>

\* m.wal.Write(tran)
MutexWalWrite(p, outcome) ==
    /\ engine = "Mutex" /\ status = "running" /\ pc[p] = "write"
    /\ LET w == WALWrite(walFile, walSynced, tx[p], outcome)
       IN  /\ walFile' = w.file
           /\ walSynced' = w.synced
           /\ walErr' = w.err
           /\ IF w.err # Nil
              THEN /\ result' = [result EXCEPT ![p] = ErrWALWriteFailed]
                   /\ pc' = [pc EXCEPT ![p] = "ret"]
              ELSE /\ pc' = [pc EXCEPT ![p] = "flush"]
                   /\ UNCHANGED result
           /\ walFaulted' = (walFaulted \/ w.err # Nil)
    /\ UNCHANGED <<engine, seed, sideVars, status, ledgerVars, mu, tx, lmaxVars,
                   posts, crashes, ackedOk, mutations, snapshot, sumBefore,
                   pendingAtShutdown, scriptPos, log>>

\* mutant: the error of Flush is not checked
MutexWalFlushErrIgnored(p, outcome) ==
    /\ engine = "Mutex" /\ status = "running" /\ pc[p] = "flush"
    /\ LET f == WALFlush(walFile, walSynced, outcome)
       IN  /\ walSynced' = f.synced
           /\ walErr' = f.err
           /\ walFaulted' = (walFaulted \/ f.err # Nil)
    /\ pc' = [pc EXCEPT ![p] = "apply"]
    /\ UNCHANGED <<engine, seed, sideVars, status, ledgerVars, walFile, mu, tx, result, lmaxVars,
                   posts, crashes, ackedOk, mutations, snapshot, sumBefore,
                   pendingAtShutdown, scriptPos, log>>

\* m.wal.Flush()
MutexWalFlush(p, outcome) ==
    /\ engine = "Mutex" /\ status = "running" /\ pc[p] = "flush"
    /\ LET f == WALFlush(walFile, walSynced, outcome)
       IN  /\ walSynced' = f.synced
           /\ walErr' = f.err
           /\ IF f.err # Nil
              THEN /\ result' = [result EXCEPT ![p] = ErrWALWriteFailed]
                   /\ pc' = [pc EXCEPT ![p] = "ret"]
              ELSE /\ pc' = [pc EXCEPT ![p] = "apply"]
                   /\ UNCHANGED result
           /\ walFaulted' = (walFaulted \/ f.err # Nil)
    /\ UNCHANGED <<engine, seed, sideVars, status, ledgerVars, walFile, mu, tx, lmaxVars,
                   posts, crashes, ackedOk, mutations, snapshot, sumBefore,
                   pendingAtShutdown, scriptPos, log>>

\* mutant: the id is recorded whatever the handler returned
MutexFinishAlwaysRecords(p, err) ==
    /\ processedTransactions' = processedTransactions \cup {tx[p].TransactionID}
    /\ result' = [result EXCEPT ![p] = err]
    /\ pc' = [pc EXCEPT ![p] = "ret"]

\* "if err == nil { processedTransactions[id] = now }; return err"
MutexFinish(p, err) ==
    /\ processedTransactions' = IF err = Nil
                                THEN processedTransactions \cup {tx[p].TransactionID}
                                ELSE processedTransactions
    /\ result' = [result EXCEPT ![p] = err]
    /\ pc' = [pc EXCEPT ![p] = "ret"]

\* the switch on tran.Type; a transfer stops after its debit
MutexDispatch(p) ==
    /\ engine = "Mutex" /\ status = "running" /\ pc[p] = "apply"
    /\ LET t == tx[p]
       IN  IF t.Type = TransactionTypeDeposit
           THEN LET r == handleDeposit(accounts, t)
                IN  accounts' = r.accounts /\ MutexFinish(p, r.err)
           ELSE IF t.Type = TransactionTypeWithdraw
           THEN LET r == handleWithdraw(accounts, t)
                IN  accounts' = r.accounts /\ MutexFinish(p, r.err)
           ELSE IF t.Type = TransactionTypeTransfer
           THEN LET d == handleTransferDebit(accounts, t)
                IN  /\ accounts' = d.accounts
                    /\ IF d.err # Nil
                       THEN MutexFinish(p, d.err)
                       ELSE /\ pc' = [pc EXCEPT ![p] = "credit"]
                            /\ UNCHANGED <<processedTransactions, result>>
           ELSE \* default: return nil, without recording the id
                /\ result' = [result EXCEPT ![p] = Nil]
                /\ pc' = [pc EXCEPT ![p] = "ret"]
                /\ UNCHANGED <<accounts, processedTransactions>>
    /\ mutations' = Mutated(tx[p].TransactionID, accounts, accounts')
    /\ sumBefore' = IF pc'[p] = "credit" THEN SumBalances(accounts) ELSE 0
    /\ UNCHANGED <<engine, seed, sideVars, status, walVars, mu, tx, lmaxVars,
                   posts, crashes, ackedOk, snapshot, walFaulted, pendingAtShutdown, scriptPos, log>>

\* the credit of a transfer: toAccount.Deposit
MutexCredit(p) ==
    /\ engine = "Mutex" /\ status = "running" /\ pc[p] = "credit"
    /\ LET r == handleTransferCredit(accounts, tx[p])
       IN  accounts' = r.accounts /\ MutexFinish(p, r.err)
    /\ sumBefore' = 0
    /\ UNCHANGED <<engine, seed, sideVars, status, walVars, mu, tx, lmaxVars,
                   posts, crashes, ackedOk, mutations, snapshot, walFaulted, pendingAtShutdown, scriptPos, log>>

\* the deferred m.mu.Unlock() and the return
MutexUnlock(p) ==
    /\ engine = "Mutex" /\ status = "running" /\ pc[p] = "ret"
    /\ mu' = NoProc
    /\ Returned(p, result[p])
    /\ walErr' = Nil
    /\ UNCHANGED <<engine, seed, sideVars, status, ledgerVars, walFile, walSynced, lmaxVars,
                   posts, crashes, mutations, snapshot, sumBefore, walFaulted, pendingAtShutdown>>

(***************************************************************************)
(* LMAXLedger: producers (postTransactionInternal) and the run loop        *)
(***************************************************************************)
\* mutant: a full queue drops the request instead of blocking the producer
LmaxSubmitDropWhenFull(p, t) ==
    /\ engine = "LMAX"
    /\ CanPost(p, t)
    /\ transactionChan' = IF Len(transactionChan) < chanCap
                          THEN Append(transactionChan, [Tx |-> t, owner |-> p])
                          ELSE transactionChan
    /\ resultChan' = [resultChan EXCEPT ![p] = << >>]
    /\ pc' = [pc EXCEPT ![p] = "await"]
    /\ tx' = [tx EXCEPT ![p] = t]
    /\ posts' = Posted
    /\ UNCHANGED <<engine, seed, sideVars, status, ledgerVars, walVars, mu, result,
                   runLoop, runPc, runReq, ctxDone, chanCap,
                   crashes, ackedOk, mutations, snapshot, sumBefore, walFaulted, pendingAtShutdown,
                   scriptPos, log>>

\* requestPool.Get, req.Tx = tran, drain of req.Result, send on transactionChan
LmaxSubmit(p, t) ==
    /\ engine = "LMAX"
    /\ CanPost(p, t)
    /\ Len(transactionChan) < chanCap
    /\ transactionChan' = Append(transactionChan, [Tx |-> t, owner |-> p])
    /\ resultChan' = [resultChan EXCEPT ![p] = << >>]
    /\ pc' = [pc EXCEPT ![p] = "await"]
    /\ tx' = [tx EXCEPT ![p] = t]
    /\ posts' = Posted
    /\ UNCHANGED <<engine, seed, sideVars, status, ledgerVars, walVars, mu, result,
                   runLoop, runPc, runReq, ctxDone, chanCap,
                   crashes, ackedOk, mutations, snapshot, sumBefore, walFaulted, pendingAtShutdown,
                   scriptPos, log>>

\* err := <-req.Result; requestPool.Put(req); return err
LmaxReceive(p) ==
    /\ engine = "LMAX" /\ status = "running" /\ pc[p] = "await"
    /\ resultChan[p] # << >>
    /\ resultChan' = [resultChan EXCEPT ![p] = Tail(@)]
    /\ Returned(p, Head(resultChan[p]))
    /\ UNCHANGED <<engine, seed, sideVars, status, ledgerVars, walVars, mu,
                   transactionChan, runLoop, runPc, runReq, ctxDone, chanCap,
                   posts, crashes, mutations, snapshot, sumBefore, walFaulted, pendingAtShutdown>>

\* the context passed to Start is cancelled
LmaxShutdown ==
    /\ engine = "LMAX" /\ status = "running" /\ ~ctxDone
    /\ ctxDone' = TRUE
    /\ pendingAtShutdown' = transactionChan
    /\ UNCHANGED <<engine, seed, sideVars, status, ledgerVars, walVars, callerVars,
                   transactionChan, resultChan, runLoop, runPc, runReq, chanCap,
                   posts, crashes, ackedOk, mutations, snapshot, sumBefore, walFaulted,
                   scriptPos, log>>

\* mutant: the newest request is taken first
RunRecvNewestFirst ==
    /\ engine = "LMAX" /\ status = "running"
    /\ runLoop \in {"run", "drain"} /\ runPc = "select"
    /\ transactionChan # << >>
    /\ runReq' = transactionChan[Len(transactionChan)]
    /\ transactionChan' = SubSeq(transactionChan, 1, Len(transactionChan) - 1)
    /\ runPc' = "probe"
    /\ walErr' = Nil
    /\ UNCHANGED <<engine, seed, sideVars, status, ledgerVars, walFile, walSynced, callerVars,
                   resultChan, runLoop, ctxDone, chanCap, histVars>>

\* run / drain: "case req := <-l.transactionChan"
RunRecv ==
    /\ engine = "LMAX" /\ status = "running"
    /\ runLoop \in {"run", "drain"} /\ runPc = "select"
    /\ transactionChan # << >>
    /\ runReq' = Head(transactionChan)
    /\ transactionChan' = Tail(transactionChan)
    /\ runPc' = "probe"
    /\ walErr' = Nil
    /\ UNCHANGED <<engine, seed, sideVars, status, ledgerVars, walFile, walSynced, callerVars,
                   resultChan, runLoop, ctxDone, chanCap, histVars>>

\* mutant: run returns on ctx.Done() without draining
RunCtxDoneNoDrain ==
    /\ engine = "LMAX" /\ status = "running"
    /\ runLoop = "run" /\ runPc = "select" /\ ctxDone
    /\ runLoop' = "exited"
    /\ UNCHANGED <<engine, seed, sideVars, status, ledgerVars, walVars, callerVars,
                   transactionChan, resultChan, runPc, runReq, ctxDone, chanCap, histVars>>

\* run: "case <-ctx.Done()": go on to drain
RunCtxDone ==
    /\ engine = "LMAX" /\ status = "running"
    /\ runLoop = "run" /\ runPc = "select" /\ ctxDone
    /\ runLoop' = "drain"
    /\ UNCHANGED <<engine, seed, sideVars, status, ledgerVars, walVars, callerVars,
                   transactionChan, resultChan, runPc, runReq, ctxDone, chanCap, histVars>>

\* drain: "default: return"
RunDrainExit ==
    /\ engine = "LMAX" /\ status = "running"
    /\ runLoop = "drain" /\ runPc = "select"
    /\ transactionChan = << >>
    /\ runLoop' = "exited"
    /\ UNCHANGED <<engine, seed, sideVars, status, ledgerVars, walVars, callerVars,
                   transactionChan, resultChan, runPc, runReq, ctxDone, chanCap, histVars>>

\* "req.Result <- err": the end of processTransaction
RunReply(err) ==
    /\ resultChan' = [resultChan EXCEPT ![runReq.owner] = Append(@, err)]
    /\ runPc' = "select"
    /\ runReq' = NoReq

\* mutant: no idempotency check in the run loop
RunProbeMissing ==
    /\ engine = "LMAX" /\ status = "running" /\ runPc = "probe"
    /\ runPc' = "write"
    /\ UNCHANGED <<engine, seed, sideVars, status, ledgerVars, walVars, callerVars,
                   transactionChan, resultChan, runLoop, runReq, ctxDone, chanCap, histVars>>

\* processTransaction step 0: the idempotency check
RunProbe ==
    /\ engine = "LMAX" /\ status = "running" /\ runPc = "probe"
    /\ IF runReq.Tx.TransactionID \in processedTransactions
       THEN RunReply(Nil)
       ELSE /\ runPc' = "write"
            /\ UNCHANGED <<resultChan, runReq>>
    /\ UNCHANGED <<engine, seed, sideVars, status, ledgerVars, walVars, callerVars,
                   transactionChan, runLoop, ctxDone, chanCap, histVars>>

\* mutant: a transaction whose record the file already holds is not written again
RunWalWriteOncePerTx(outcome) ==
    /\ engine = "LMAX" /\ status = "running" /\ runPc = "write"
    /\ LET w == IF \E i \in 1 .. Len(walFile) : walFile[i] = JSONEncode(runReq.Tx)
                THEN [file |-> walFile, synced |-> walSynced, err |-> Nil]
                ELSE WALWrite(walFile, walSynced, runReq.Tx, outcome)
       IN  /\ walFile' = w.file
           /\ walSynced' = w.synced
           /\ walErr' = w.err
           /\ IF w.err # Nil
              THEN RunReply(ErrWALWriteFailed)
              ELSE /\ runPc' = "apply"
                   /\ UNCHANGED <<resultChan, runReq>>
           /\ walFaulted' = (walFaulted \/ w.err # Nil)
    /\ UNCHANGED <<engine, seed, sideVars, status, ledgerVars, callerVars,
                   transactionChan, runLoop, ctxDone, chanCap,
                   posts, crashes, ackedOk, mutations, snapshot, sumBefore,
                   pendingAtShutdown, scriptPos, log>>

\* mutant: the error of wal.Write is not checked
RunWalWriteErrIgnored(outcome) ==
    /\ engine = "LMAX" /\ status = "running" /\ runPc = "write"
    /\ LET w == WALWrite(walFile, walSynced, runReq.Tx, outcome)
       IN  /\ walFile' = w.file
           /\ walSynced' = w.synced
           /\ walErr' = w.err
           /\ runPc' = "apply"
           /\ UNCHANGED <<resultChan, runReq>>
           /\ walFaulted' = (walFaulted \/ w.err # Nil)
    /\ UNCHANGED <<engine, seed, sideVars, status, ledgerVars, callerVars,
                   transactionChan, runLoop, ctxDone, chanCap,
                   posts, crashes, ackedOk, mutations, snapshot, sumBefore,
                   pendingAtShutdown, scriptPos, log>>

\* processTransaction step 1: l.wal.Write(tran)
RunWalWrite(outcome) ==
    /\ engine = "LMAX" /\ status = "running" /\ runPc = "write"
    /\ LET w == WALWrite(walFile, walSynced, runReq.Tx, outcome)
       IN  /\ walFile' = w.file
           /\ walSynced' = w.synced
           /\ walErr' = w.err
           /\ IF w.err # Nil
              THEN RunReply(ErrWALWriteFailed)
              ELSE /\ runPc' = "apply"
                   /\ UNCHANGED <<resultChan, runReq>>
           /\ walFaulted' = (walFaulted \/ w.err # Nil)
    /\ UNCHANGED <<engine, seed, sideVars, status, ledgerVars, callerVars,
                   transactionChan, runLoop, ctxDone, chanCap,
                   posts, crashes, ackedOk, mutations, snapshot, sumBefore,
                   pendingAtShutdown, scriptPos, log>>

\* steps 3 and 4: record the id when err is nil, answer the request
RunFinish(err) ==
    /\ processedTransactions' = IF err = Nil
                                THEN processedTransactions \cup {runReq.Tx.TransactionID}
                                ELSE processedTransactions
    /\ RunReply(err)

\* step 2: the switch on tran.Type; a transfer stops after its debit
RunDispatch ==
    /\ engine = "LMAX" /\ status = "running" /\ runPc = "apply"
    /\ LET t == runReq.Tx
       IN  IF t.Type = TransactionTypeDeposit
           THEN LET r == handleDeposit(accounts, t)
                IN  accounts' = r.accounts /\ RunFinish(r.err)
           ELSE IF t.Type = TransactionTypeWithdraw
           THEN LET r == handleWithdraw(accounts, t)
                IN  accounts' = r.accounts /\ RunFinish(r.err)
           ELSE IF t.Type = TransactionTypeTransfer
           THEN LET d == handleTransferDebit(accounts, t)
                IN  /\ accounts' = d.accounts
                    /\ IF d.err # Nil
                       THEN RunFinish(d.err)
                       ELSE /\ runPc' = "credit"
                            /\ UNCHANGED <<processedTransactions, resultChan, runReq>>
           ELSE \* default: err = nil, the id is recorded
                accounts' = accounts /\ RunFinish(Nil)
    /\ mutations' = Mutated(runReq.Tx.TransactionID, accounts, accounts')
    /\ sumBefore' = IF runPc' = "credit" THEN SumBalances(accounts) ELSE 0
    /\ UNCHANGED <<engine, seed, sideVars, status, walVars, callerVars,
                   transactionChan, runLoop, ctxDone, chanCap,
                   posts, crashes, ackedOk, snapshot, walFaulted, pendingAtShutdown, scriptPos, log>>

\* the credit of a transfer: toAccount.Deposit
RunCredit ==
    /\ engine = "LMAX" /\ status = "running" /\ runPc = "credit"
    /\ LET r == handleTransferCredit(accounts, runReq.Tx)
       IN  accounts' = r.accounts /\ RunFinish(r.err)
    /\ sumBefore' = 0
    /\ UNCHANGED <<engine, seed, sideVars, status, walVars, callerVars,
                   transactionChan, runLoop, ctxDone, chanCap,
                   posts, crashes, ackedOk, mutations, snapshot, walFaulted, pendingAtShutdown, scriptPos, log>>

(***************************************************************************)
(* Crash and restart                                                       *)
(***************************************************************************)
Quiescent ==
    /\ \A p \in Procs : pc[p] = "idle"
    /\ transactionChan = << >>
    /\ runPc = "select"

\* The process dies (or the machine loses power).  Memory is gone; the file
\* keeps every synced line and the first keep lines in all.
Crash(keep) ==
    /\ status = "running"
    /\ crashes < MaxCrashes
    /\ keep \in walSynced .. Len(walFile)
    /\ status' = "crashed"
    /\ crashes' = crashes + 1
    /\ snapshot' = [accounts |-> accounts, processed |-> processedTransactions,
                    quiescent |-> Quiescent, clean |-> ~walFaulted]
    /\ walFile' = SubSeq(walFile, 1, keep)
    /\ walSynced' = keep
    /\ walErr' = Nil
    /\ sumBefore' = 0
    /\ accounts' = seed
    /\ processedTransactions' = {}
    /\ mu' = NoProc
    /\ pc' = [p \in Procs |-> "idle"]
    /\ tx' = [p \in Procs |-> NoTx]
    /\ result' = [p \in Procs |-> Nil]
    /\ transactionChan' = << >>
    /\ resultChan' = [p \in Procs |-> << >>]
    /\ runLoop' = "run"
    /\ runPc' = "select"
    /\ runReq' = NoReq
    /\ ctxDone' = FALSE
    /\ pendingAtShutdown' = << >>
    /\ mutations' = [id \in AllIds |-> 0]
    /\ UNCHANGED <<engine, seed, sideVars, chanCap, posts, ackedOk, walFaulted, scriptPos, log>>

\* mutant: recovery replays through the live path and logs again
RestartRelogging ==
    /\ status = "crashed"
    /\ LET r == recoverFromWAL(seed, walFile)
       IN  /\ accounts' = r.accounts
           /\ processedTransactions' = r.processed
           /\ status' = IF r.err = Nil THEN "running" ELSE "failed"
           /\ walFile' = IF r.err = Nil THEN walFile \o walFile ELSE walFile
           /\ walSynced' = Len(walFile')
    /\ snapshot' = NoSnapshot
    /\ UNCHANGED <<engine, seed, sideVars, walErr, callerVars, lmaxVars,
                   posts, crashes, ackedOk, mutations, sumBefore, walFaulted,
                   pendingAtShutdown, scriptPos, log>>

\* main after a restart: NewMutexLedger / NewLMAXLedger on the seed and the
\* same WAL file; the constructor runs recoverFromWAL before any traffic.
Restart ==
    /\ status = "crashed"
    /\ LET r == recoverFromWAL(seed, walFile)
       IN  /\ accounts' = r.accounts
           /\ processedTransactions' = r.processed
           /\ status' = IF r.err = Nil THEN "running" ELSE "failed"
    /\ snapshot' = NoSnapshot
    /\ UNCHANGED <<engine, seed, sideVars, walVars, callerVars, lmaxVars,
                   posts, crashes, ackedOk, mutations, sumBefore, walFaulted, pendingAtShutdown, scriptPos, log>>

Next ==
    \/ \E p \in Procs, t \in TxInputs : MutexLock(p, t)
    \/ \E p \in Procs : MutexProbe(p)
    \/ \E p \in Procs, o \in WriteOutcomes : MutexWalWrite(p, o)
    \/ \E p \in Procs, o \in SyncOutcomes : MutexWalFlush(p, o)
    \/ \E p \in Procs : MutexDispatch(p)
    \/ \E p \in Procs : MutexCredit(p)
    \/ \E p \in Procs : MutexUnlock(p)
    \/ \E p \in Procs, t \in TxInputs : LmaxSubmit(p, t)
    \/ \E p \in Procs : LmaxReceive(p)
    \/ RunRecv
    \/ RunProbe
    \/ \E o \in WriteOutcomes : RunWalWrite(o)
    \/ RunDispatch
    \/ RunCredit
    \/ \E k \in 0 .. MaxPosts : Crash(k)
    \/ Restart

Spec == Init /\ [][Next]_vars

TypeOK ==
    /\ engine \in {"Mutex", "LMAX", "MySQL"}
    /\ status \in {"running", "crashed", "failed"}
    /\ DOMAIN accounts = DOMAIN seed
    /\ \A a \in DOMAIN accounts : accounts[a] \in MinInt .. MaxInt
    /\ processedTransactions \subseteq AllIds
    /\ walSynced \in 0 .. Len(walFile)
    /\ mu \in Procs \cup {NoProc}
    /\ Len(transactionChan) <= chanCap

(***************************************************************************)
(* The end-to-end scenario: the callers post the script in order on the    *)
(* scenario seed; the WAL medium is healthy; the node may crash and        *)
(* restart.                                                                *)
(***************************************************************************)
ScriptTxs == { Script[i] : i \in 1 .. Len(Script) }

InitScenario ==
    /\ engine \in {"Mutex", "LMAX"}
    /\ seed = ScenarioSeed
    /\ scriptPos = 1
    /\ script = Script
    /\ chanCap = QueueCap
    /\ InitCommon

NextScenario ==
    \/ \E p \in Procs, t \in ScriptTxs : MutexLock(p, t)
    \/ \E p \in Procs : MutexProbe(p)
    \/ \E p \in Procs : MutexWalWrite(p, "ok")
    \/ \E p \in Procs : MutexWalFlush(p, "ok")
    \/ \E p \in Procs : MutexDispatch(p)
    \/ \E p \in Procs : MutexCredit(p)
    \/ \E p \in Procs : MutexUnlock(p)
    \/ \E p \in Procs, t \in ScriptTxs : LmaxSubmit(p, t)
    \/ \E p \in Procs : LmaxReceive(p)
    \/ RunRecv
    \/ RunProbe
    \/ RunWalWrite("ok")
    \/ RunDispatch
    \/ RunCredit
    \/ \E k \in 0 .. Len(Script) : Crash(k)
    \/ Restart

SpecScenario == InitScenario /\ [][NextScenario]_vars

(***************************************************************************)
(* Start-up on a WAL file of any contents: the node is down, main          *)
(* constructs the ledger on the seed and the file.                         *)
(***************************************************************************)
InitRecovery ==
    /\ engine \in {"Mutex", "LMAX"}
    /\ seed = Seed
    /\ status = "crashed"
    /\ accounts = seed
    /\ processedTransactions = {}
    /\ walFile \in WalFiles
    /\ walSynced = Len(walFile)
    /\ walErr = Nil
    /\ mu = NoProc
    /\ pc = [p \in Procs |-> "idle"]
    /\ tx = [p \in Procs |-> NoTx]
    /\ result = [p \in Procs |-> Nil]
    /\ transactionChan = << >>
    /\ resultChan = [p \in Procs |-> << >>]
    /\ runLoop = "run"
    /\ runPc = "select"
    /\ runReq = NoReq
    /\ ctxDone = FALSE
    /\ chanCap = QueueCap
    /\ posts = 0
    /\ crashes = 0
    /\ ackedOk = {}
    /\ mutations = [id \in AllIds |-> 0]
    /\ snapshot = NoSnapshot
    /\ sumBefore = 0
    /\ walFaulted = FALSE
    /\ pendingAtShutdown = << >>
    /\ scriptPos = 0
    /\ log = << >>
    /\ script = << >>
    /\ firstRun = NoRun
    /\ readerPc = [r \in Readers |-> "idle"]
    /\ dbTx = [p \in Procs |-> NoDbTx]
    /\ callerCtxDone = [p \in Procs |-> FALSE]
    /\ requestPool = {}
    /\ req = [p \in Procs |-> NoEnvelope]

NextRecovery == Restart

SpecRecovery == InitRecovery /\ [][NextRecovery]_vars

(***************************************************************************)
(* The LMAX ledger through shutdown: producers and the run loop on a       *)
(* healthy WAL medium, the context of Start cancelled at any moment, a     *)
(* queue with room for one request more than the main specification's.     *)
(***************************************************************************)
InitShutdown ==
    /\ engine = "LMAX"
    /\ seed = Seed
    /\ scriptPos = 0
    /\ script = << >>
    /\ chanCap = QueueCap + 1
    /\ InitCommon

NextShutdown ==
    \/ \E p \in Procs, t \in ShutdownInputs : LmaxSubmit(p, t)
    \/ \E p \in Procs : LmaxReceive(p)
    \/ LmaxShutdown
    \/ RunRecv
    \/ RunCtxDone
    \/ RunDrainExit
    \/ RunProbe
    \/ RunWalWrite("ok")
    \/ RunDispatch
    \/ RunCredit

SpecShutdown == InitShutdown /\ [][NextShutdown]_vars

(***************************************************************************)
(* Posts of non-positive amounts on a healthy WAL medium, no crash.        *)
(***************************************************************************)
NextAmounts ==
    \/ \E p \in Procs, t \in AmountInputs : MutexLock(p, t)
    \/ \E p \in Procs : MutexProbe(p)
    \/ \E p \in Procs : MutexWalWrite(p, "ok")
    \/ \E p \in Procs : MutexWalFlush(p, "ok")
    \/ \E p \in Procs : MutexDispatch(p)
    \/ \E p \in Procs : MutexCredit(p)
    \/ \E p \in Procs : MutexUnlock(p)
    \/ \E p \in Procs, t \in AmountInputs : LmaxSubmit(p, t)
    \/ \E p \in Procs : LmaxReceive(p)
    \/ RunRecv
    \/ RunProbe
    \/ RunWalWrite("ok")
    \/ RunDispatch
    \/ RunCredit

SpecAmounts == Init /\ [][NextAmounts]_vars

(***************************************************************************)
(* Properties                                                              *)
(***************************************************************************)
\* the transaction whose post is being processed: the lock holder's, or the
\* request the run loop has in hand
InHandTx ==
    IF engine = "Mutex"
    THEN (IF mu \in Procs THEN tx[mu] ELSE NoTx)
    ELSE runReq.Tx

\* the line of t is in the WAL file and a successful Sync has covered it
Durable(t) == \E i \in 1 .. walSynced : walFile[i] = JSONEncode(t)

\* C1: write-before-apply.  In both engines, whenever a step of the running
\* ledger changes a balance, the record of the transaction being processed
\* is already in the WAL and covered by a successful durable flush.
C1_WriteBeforeApply ==
    [][ (status = "running" /\ status' = "running" /\ accounts' # accounts)
        => Durable(InHandTx) ]_vars

\* C1 witness: a post has changed a balance with its record synced.
C1_Witness ==
    /\ status = "running" /\ crashes = 0
    /\ accounts # seed
    /\ walSynced = 1
    /\ \E p \in Procs : pc[p] = "ret" /\ result[p] = Nil /\ Durable(tx[p])

\* C2: if post(T) returned Ok, then after a crash and a restart the engine
\* starts and the idempotency index holds T, whatever other posts were made.
C2_AckedSurvivesRestart ==
    [][ (status = "crashed" /\ status' # "crashed" /\ ackedOk # {})
        => (status' = "running" /\ ackedOk \subseteq processedTransactions') ]_vars

\* C3: recovery from the WAL a history of completed posts produced (no WAL
\* call having failed), on the original seed, yields the balances and the
\* idempotency set the live engine had before the crash.
C3_RecoverEqualsApply ==
    [][ (status = "crashed" /\ status' # "crashed"
         /\ snapshot.quiescent /\ snapshot.clean)
        => (/\ status' = "running"
            /\ accounts' = snapshot.accounts
            /\ processedTransactions' = snapshot.processed) ]_vars

\* C4: within one engine lifetime, at most one post carrying a given id
\* changes the account store.
C4_MutatedAtMostOnce == \A id \in AllIds : mutations[id] <= 1

\* C4 witness (Mutex): after Deposit A was applied, a Withdraw carrying id A
\* came back Ok without withdrawing.
C4_Witness ==
    /\ engine = "Mutex" /\ status = "running" /\ crashes = 0
    /\ mutations["A"] = 1
    /\ accounts = [seed EXCEPT ![1] = 2]
    /\ \E p \in Procs : /\ pc[p] = "ret" /\ result[p] = Nil
                        /\ tx[p] = Transaction("A", TransactionTypeWithdraw, 2, 0, 2)

\* C5: a post whose id is in the idempotency index returns Ok and leaves the
\* account store, the idempotency index and the WAL file unchanged; so does
\* the return to the caller.
C5_DuplicateIsNoOp ==
    [][ /\ \A p \in Procs :
              (/\ engine = "Mutex" /\ status' = "running"
               /\ pc[p] = "probe" /\ pc'[p] # "probe"
               /\ tx[p].TransactionID \in processedTransactions)
              => (/\ pc'[p] = "ret" /\ result'[p] = Nil
                  /\ UNCHANGED <<accounts, processedTransactions, walFile>>)
        /\ (/\ engine = "LMAX" /\ status' = "running"
            /\ runPc = "probe" /\ runPc' # "probe"
            /\ runReq.Tx.TransactionID \in processedTransactions)
           => (/\ runPc' = "select"
               /\ resultChan'[runReq.owner] = Append(resultChan[runReq.owner], Nil)
               /\ UNCHANGED <<accounts, processedTransactions, walFile>>)
        /\ \A p \in Procs :
              (pc[p] \in {"await", "ret"} /\ pc'[p] = "idle" /\ status' = "running")
              => UNCHANGED <<accounts, processedTransactions, walFile>> ]_vars

\* C5 witness (LMAX): with A applied by a deposit and one line in the WAL, a
\* Withdraw carrying id A has been answered Ok.
C5_Witness ==
    /\ engine = "LMAX" /\ status = "running" /\ crashes = 0
    /\ processedTransactions = {"A"}
    /\ Len(walFile) = 1 /\ walFile[1].Type = TransactionTypeDeposit
    /\ \E p \in Procs : /\ pc[p] = "await" /\ resultChan[p] = <<Nil>>
                        /\ tx[p] = Transaction("A", TransactionTypeWithdraw, 2, 0, 2)

\* C6: from a non-negative seed, after any completed post every balance is
\* non-negative.
C6_BalancesNonNegative ==
    (status = "running" /\ crashes = 0 /\ Quiescent)
    => \A a \in DOMAIN accounts : accounts[a] >= 0

\* the change of the total balance a completed post may make
SumLaw(t, before, after, err) ==
    IF err # Nil THEN after = before
    ELSE IF t.Type = TransactionTypeDeposit THEN after = before + t.Amount
    ELSE IF t.Type = TransactionTypeWithdraw THEN after = before - t.Amount
    ELSE after = before

\* C7: the total balance is unchanged by a successful Transfer, grows by
\* exactly the amount on a successful Deposit, shrinks by exactly the amount
\* on a successful Withdraw, and is unchanged by a failed or duplicate post.
C7_TotalBalanceLaw ==
    [][ /\ \A p \in Procs :
              (engine = "Mutex" /\ status' = "running" /\ pc'[p] = "ret")
              => (/\ pc[p] = "apply"
                     => SumLaw(tx[p], SumBalances(accounts), SumBalances(accounts'), result'[p])
                  /\ pc[p] = "credit"
                     => SumLaw(tx[p], sumBefore, SumBalances(accounts'), result'[p])
                  /\ pc[p] = "probe"
                     => SumBalances(accounts') = SumBalances(accounts))
        /\ (engine = "LMAX" /\ status' = "running" /\ runPc' = "select" /\ runPc # "select")
           => LET err == resultChan'[runReq.owner][Len(resultChan'[runReq.owner])]
              IN  /\ runPc = "apply"
                     => SumLaw(runReq.Tx, SumBalances(accounts), SumBalances(accounts'), err)
                  /\ runPc = "credit"
                     => SumLaw(runReq.Tx, sumBefore, SumBalances(accounts'), err)
                  /\ runPc \in {"probe", "write"}
                     => SumBalances(accounts') = SumBalances(accounts) ]_vars

\* what the scenario table expects after each of its five posts
Expected ==
    << [result |-> Nil, accounts |-> (1 :> 125) @@ (2 :> 50), II |-> {"A"}],
       [result |-> ErrInsufficientBalance, accounts |-> (1 :> 125) @@ (2 :> 50), II |-> {"A"}],
       [result |-> Nil, accounts |-> (1 :> 125) @@ (2 :> 0), II |-> {"A", "B"}],
       [result |-> Nil, accounts |-> (1 :> 125) @@ (2 :> 0), II |-> {"A", "B"}],
       [result |-> Nil, accounts |-> (1 :> 50) @@ (2 :> 75), II |-> {"A", "B", "C"}] >>

\* C8: on {1:100, 2:50} the five posts of the scenario return Ok,
\* InsufficientBalance, Ok, Ok, Ok and pass through the tabulated post-states.
C8_Scenario ==
    /\ Len(log) <= Len(Expected)
    /\ \A i \in 1 .. Len(log) : log[i] = Expected[i]

\* C8 witness: all five posts have returned.
C8_Witness == Len(log) = 5 /\ scriptPos = 6 /\ crashes = 0

\* C9: when the WAL append or its flush fails, the post returns
\* WALWriteFailed and neither a balance nor the idempotency index changes.
C9_WalFailureSurfaces ==
    [][ /\ \A p \in Procs :
              (/\ engine = "Mutex" /\ status' = "running"
               /\ pc[p] \in {"write", "flush"} /\ pc'[p] # pc[p]
               /\ walErr' # Nil)
              => (/\ pc'[p] = "ret" /\ result'[p] = ErrWALWriteFailed
                  /\ UNCHANGED <<accounts, processedTransactions>>)
        /\ (/\ engine = "LMAX" /\ status' = "running"
            /\ runPc = "write" /\ runPc' # "write"
            /\ walErr' # Nil)
           => (/\ runPc' = "select"
               /\ resultChan'[runReq.owner]
                     = Append(resultChan[runReq.owner], ErrWALWriteFailed)
               /\ UNCHANGED <<accounts, processedTransactions>>)
        /\ \A p \in Procs :
              (/\ pc[p] = "ret" /\ pc'[p] # "ret" /\ status' = "running"
               /\ result[p] = ErrWALWriteFailed)
              => UNCHANGED <<accounts, processedTransactions>> ]_vars

\* C9 witness (Mutex): the flush failed after the line was written; the post
\* is about to return WALWriteFailed with the ledger as it was.
C9_Witness ==
    /\ engine = "Mutex" /\ status = "running" /\ crashes = 0
    /\ walErr # Nil /\ Len(walFile) = 1
    /\ accounts = seed /\ processedTransactions = {}
    /\ \E p \in Procs : pc[p] = "ret" /\ result[p] = ErrWALWriteFailed

\* C10: a post that fails business validation changes no balance and does
\* not enter the idempotency index, and a post whose id is not in the index
\* is executed (goes on to the WAL) rather than answered as a duplicate.
C10_BusinessFailureLeavesNoTrace ==
    [][ /\ \A p \in Procs :
              (/\ engine = "Mutex" /\ status' = "running"
               /\ pc[p] \in {"apply", "credit"} /\ pc'[p] = "ret"
               /\ result'[p] \in BusinessErrors)
              => (/\ pc[p] = "apply"
                  /\ UNCHANGED <<accounts, processedTransactions>>
                  /\ tx[p].TransactionID \notin processedTransactions')
        /\ (/\ engine = "LMAX" /\ status' = "running"
            /\ runPc \in {"apply", "credit"} /\ runPc' = "select"
            /\ resultChan'[runReq.owner][Len(resultChan'[runReq.owner])] \in BusinessErrors)
           => (/\ runPc = "apply"
               /\ UNCHANGED <<accounts, processedTransactions>>
               /\ runReq.Tx.TransactionID \notin processedTransactions')
        /\ \A p \in Procs :
              (/\ engine = "Mutex" /\ status' = "running"
               /\ pc[p] = "probe" /\ pc'[p] # "probe"
               /\ tx[p].TransactionID \notin processedTransactions)
              => pc'[p] = "write"
        /\ (/\ engine = "LMAX" /\ status' = "running"
            /\ runPc = "probe" /\ runPc' # "probe"
            /\ runReq.Tx.TransactionID \notin processedTransactions)
           => runPc' = "write" ]_vars

\* C10 witness (LMAX): the first post of id B failed validation after its
\* line was synced; a second post of id B is past the probe, on its way to
\* the WAL.
C10_Witness ==
    /\ engine = "LMAX" /\ status = "running" /\ crashes = 0
    /\ posts = 2 /\ accounts = seed /\ processedTransactions = {}
    /\ walSynced = 1 /\ walFile[1].TransactionID = <<"uuid", "B">>
    /\ runPc = "write" /\ runReq.Tx.TransactionID = "B"

\* the line of t is somewhere in the file
Logged(file, t) == \E i \in 1 .. Len(file) : file[i] = JSONEncode(t)

\* the error the run loop has just sent to the owner of the request in hand
LastReply == resultChan'[runReq.owner][Len(resultChan'[runReq.owner])]

\* C11: a post of any type whose amount is zero or negative, once it reaches
\* validation, fails with AmountMustBePositive.
C11_NonPositiveAmountRejected ==
    [][ /\ \A p \in Procs :
              (/\ engine = "Mutex" /\ status' = "running"
               /\ pc[p] = "apply" /\ pc'[p] # "apply"
               /\ tx[p].Amount <= 0)
              => (pc'[p] = "ret" /\ result'[p] = ErrAmountMustBePositive)
        /\ (/\ engine = "LMAX" /\ status' = "running"
            /\ runPc = "apply" /\ runPc' # "apply"
            /\ runReq.Tx.Amount <= 0)
           => (runPc' = "select" /\ LastReply = ErrAmountMustBePositive) ]_vars

\* C12: a post rejected with AmountMustBePositive has appended no record to
\* the WAL and has changed no balance.
C12_AmountRejectionLeavesNoRecord ==
    [][ /\ \A p \in Procs :
              (/\ engine = "Mutex" /\ status' = "running"
               /\ pc[p] = "apply" /\ pc'[p] = "ret"
               /\ result'[p] = ErrAmountMustBePositive)
              => (accounts' = accounts /\ ~Logged(walFile', tx[p]))
        /\ (/\ engine = "LMAX" /\ status' = "running"
            /\ runPc = "apply" /\ runPc' = "select"
            /\ LastReply = ErrAmountMustBePositive)
           => (accounts' = accounts /\ ~Logged(walFile', runReq.Tx)) ]_vars

\* the policy "record and continue": replay every record, skip the ones
\* whose apply fails with a business error
RECURSIVE RecordAndContinue(_, _, _)
RecordAndContinue(accts, processed, tranHistory) ==
    IF tranHistory = << >>
    THEN [accounts |-> accts, processed |-> processed]
    ELSE LET r == applyRecoverTransaction(accts, processed, Head(tranHistory))
         IN  IF r.err # Nil
             THEN RecordAndContinue(accts, processed, Tail(tranHistory))
             ELSE RecordAndContinue(r.accounts, r.processed, Tail(tranHistory))

\* the constructor runs: the node leaves the crashed state
Restarting == status = "crashed" /\ status' # "crashed"

\* C13: when every record of the WAL decodes, recovery replays them all,
\* skipping the ones whose apply fails with a business error, and the
\* constructor succeeds.
C13_RecoveryRecordsAndContinues ==
    [][ Restarting =>
        LET h == ReadAll(walFile, << >>, << >>)
            e == RecordAndContinue(seed, {}, h.tranHistory)
        IN  h.err = Nil
            => (/\ status' = "running"
                /\ accounts' = e.accounts
                /\ processedTransactions' = e.processed) ]_vars

\* C14: engine construction leaves the WAL's record sequence as it found
\* it, whatever the file holds and whether recovery succeeds or fails.
C14_RecoveryNeverAppends ==
    [][ Restarting => walFile' = walFile ]_vars

\* C14 witness: recovery has replayed a file of three records, changing a
\* balance and filling the idempotency set.
C14_Witness ==
    /\ status = "running"
    /\ Len(walFile) = 3
    /\ accounts # seed
    /\ processedTransactions = {"A", "B"}

\* the index of the first line that is not a Transaction object, 0 if none
FirstMalformed(file) ==
    IF \A i \in 1 .. Len(file) : file[i].json = "object" THEN 0
    ELSE CHOOSE i \in 1 .. Len(file) :
            /\ file[i].json # "object"
            /\ \A j \in 1 .. i - 1 : file[j].json = "object"

\* C15: with a malformed record in the WAL, ReadAll returns an error after
\* visiting nothing beyond that record, recovery fails, the constructor
\* returns an error and no record has been applied.
C15_MalformedRecordStopsRecovery ==
    [][ (Restarting /\ FirstMalformed(walFile) > 0) =>
        LET h == ReadAll(walFile, << >>, << >>)
            i == FirstMalformed(walFile)
        IN  /\ h.err \in {ErrMalformedRecord, ErrUnexpectedEOF}
            /\ Len(h.visited) \in {i - 1, i}
            /\ h.visited = SubSeq(walFile, 1, Len(h.visited))
            /\ Len(h.tranHistory) = i - 1
            /\ status' = "failed"
            /\ accounts' = seed /\ processedTransactions' = {} ]_vars

\* C15 witness: the constructor has failed on a file whose second line is
\* malformed, between two well-formed records.
C15_Witness ==
    /\ status = "failed"
    /\ Len(walFile) = 3
    /\ walFile[1].json = "object" /\ walFile[3].json = "object"
    /\ walFile[2] = StringLine
    /\ accounts = seed /\ processedTransactions = {}

\* this step leaves the validation-and-mutation stage of the post of t
\* (the switch, or the credit of a transfer)
AppliesNow(t) ==
    IF engine = "Mutex"
    THEN \E p \in Procs : /\ pc[p] \in {"apply", "credit"} /\ pc'[p] # pc[p]
                          /\ tx[p] = t
    ELSE runPc \in {"apply", "credit"} /\ runPc' # runPc /\ runReq.Tx = t

\* this step leaves the WAL-append stage of the post of t
WritesNow(t) ==
    IF engine = "Mutex"
    THEN \E p \in Procs : pc[p] = "write" /\ pc'[p] # "write" /\ tx[p] = t
    ELSE runPc = "write" /\ runPc' # "write" /\ runReq.Tx = t

\* the transactions callers have posted and not yet been answered
InFlight == { tx[p] : p \in Procs } \cup { runReq.Tx }

\* C16: in both engines, every step of a running ledger that changes a
\* balance or inserts into the idempotency index is the apply stage of the
\* transaction whose record is the last one of the WAL, and inserts no id
\* but that transaction's: transactions are applied, and their ids
\* inserted, in the order of their records.
C16_ApplyOrderIsWalOrder ==
    [][ (/\ status = "running" /\ status' = "running"
         /\ (accounts' # accounts \/ processedTransactions' # processedTransactions))
        => \E t \in InFlight :
              /\ AppliesNow(t)
              /\ walFile # << >> /\ walFile[Len(walFile)] = JSONEncode(t)
              /\ walFile' = walFile
              /\ processedTransactions' \subseteq
                    processedTransactions \cup {t.TransactionID} ]_vars

\* C16 witness (LMAX): A is applied and recorded; the run loop is about to
\* apply B, whose record is the second line, while the poster of A is still
\* waiting.
C16_Witness ==
    /\ engine = "LMAX" /\ status = "running" /\ crashes = 0
    /\ processedTransactions = {"A"}
    /\ Len(walFile) = 2 /\ walFile[1].TransactionID = <<"uuid", "A">>
    /\ runPc = "apply" /\ runReq.Tx.TransactionID = "B"
    /\ walFile[2] = JSONEncode(runReq.Tx)
    /\ \E p \in Procs : pc[p] = "await" /\ tx[p].TransactionID = "A"

C18_QueueIsFifo ==
    [][ /\ (status' = "running" /\ transactionChan' # transactionChan)
           => \/ \E p \in Procs :
                    /\ pc[p] = "idle" /\ pc'[p] = "await"
                    /\ transactionChan'
                          = Append(transactionChan, [Tx |-> tx'[p], owner |-> p])
              \/ /\ runPc = "select" /\ runReq = NoReq
                 /\ runReq' = Head(transactionChan)
                 /\ transactionChan' = Tail(transactionChan)
        /\ (status' = "running" /\ walFile' # walFile)
           => (runPc = "write" /\ walFile' = Append(walFile, JSONEncode(runReq.Tx)))
        /\ (status' = "running" /\ runReq' # runReq)
           => (runReq = NoReq \/ runReq' = NoReq) ]_vars

\* C18 witness: two different requests stood in the queue together (when
\* the context was cancelled) and the WAL holds their records in queue
\* order, both applied.
C18_Witness ==
    /\ Len(pendingAtShutdown) = 2
    /\ pendingAtShutdown[1].Tx # pendingAtShutdown[2].Tx
    /\ Len(walFile) = 2
    /\ \A i \in 1 .. 2 : walFile[i] = JSONEncode(pendingAtShutdown[i].Tx)
    /\ processedTransactions = {"A", "B"}
    /\ runPc = "select"

\* C19: when the run loop exits, every request that was queued when the
\* context was cancelled has been logged (or was a duplicate) and answered,
\* and no producer is left waiting without its result.
C19_ShutdownDrainsQueue ==
    [][ (runLoop # "exited" /\ runLoop' = "exited")
        => /\ \A i \in 1 .. Len(pendingAtShutdown) :
                 \/ Logged(walFile, pendingAtShutdown[i].Tx)
                 \/ pendingAtShutdown[i].Tx.TransactionID \in processedTransactions
           /\ \A p \in Procs : pc[p] = "await" => resultChan[p] # << >>
           /\ transactionChan = << >> /\ runReq = NoReq ]_vars

\* C19 witness: the loop has exited after a shutdown that found a request
\* queued; the request's record is in the WAL and its result is waiting
\* for the producer.
C19_Witness ==
    /\ runLoop = "exited"
    /\ Len(pendingAtShutdown) = 1
    /\ walFile = << JSONEncode(pendingAtShutdown[1].Tx) >>
    /\ pc[pendingAtShutdown[1].owner] = "await"
    /\ resultChan[pendingAtShutdown[1].owner] = <<Nil>>

\* C20: once the run loop has exited, no post is left waiting for a result
\* that is not there: a later post comes back (with a closed-queue error).
C20_PostAfterShutdownReturns ==
    runLoop = "exited"
    => \A p \in Procs : pc[p] = "await" => resultChan[p] # << >>

(***************************************************************************)
(* Callers whose context is cancelled while they wait, LMAX on a healthy   *)
(* WAL medium.  A caller passes the same context to each of its calls.     *)
(***************************************************************************)
\* the context a waiting caller passed to PostTransaction is cancelled
CallerCancel(p) ==
    /\ engine = "LMAX" /\ status = "running" /\ pc[p] = "await"
    /\ ~callerCtxDone[p]
    /\ callerCtxDone' = [callerCtxDone EXCEPT ![p] = TRUE]
    /\ UNCHANGED <<engine, seed, script, requestPool, req, firstRun, readerPc, dbTx, status, ledgerVars,
                   walVars, callerVars, lmaxVars, histVars>>

InitCancel ==
    /\ engine = "LMAX"
    /\ seed = Seed
    /\ scriptPos = 0
    /\ script = << >>
    /\ chanCap = QueueCap
    /\ InitCommon

NextCancel ==
    \/ \E p \in Procs, t \in ShutdownInputs : LmaxSubmit(p, t)
    \/ \E p \in Procs : LmaxReceive(p)
    \/ \E p \in Procs : CallerCancel(p)
    \/ RunRecv
    \/ RunProbe
    \/ RunWalWrite("ok")
    \/ RunDispatch
    \/ RunCredit

SpecCancel == InitCancel /\ [][NextCancel]_vars

\* the steps by which a caller inside PostTransaction can return
CallerCanReturn(p) == ENABLED LmaxReceive(p)

\* C21: a caller whose context is cancelled while it waits for its result
\* abandons the wait: it has a step that returns, whether or not the run loop
\* has replied.
C21_CancelledCallerAbandonsWait ==
    \A p \in Procs :
        (engine = "LMAX" /\ pc[p] = "await" /\ callerCtxDone[p]) => CallerCanReturn(p)

(***************************************************************************)
(* Balance readers beside the writers, both engines on a healthy WAL       *)
(* medium.                                                                 *)
(***************************************************************************)
\* mutant: the shared lock is granted while a writer holds mu
MutexRLockNoExclusion(r) ==
    /\ engine = "Mutex" /\ status = "running" /\ readerPc[r] = "idle"
    /\ readerPc' = [readerPc EXCEPT ![r] = "reading"]
    /\ UNCHANGED <<engine, seed, script, requestPool, req, firstRun, dbTx, callerCtxDone, status,
                   ledgerVars, walVars, callerVars, lmaxVars, histVars>>

\* MutexLedger.GetAccountBalance: m.mu.RLock()
MutexRLock(r) ==
    /\ engine = "Mutex" /\ status = "running" /\ readerPc[r] = "idle"
    /\ mu = NoProc
    /\ readerPc' = [readerPc EXCEPT ![r] = "reading"]
    /\ UNCHANGED <<engine, seed, script, requestPool, req, firstRun, dbTx, callerCtxDone, status,
                   ledgerVars, walVars, callerVars, lmaxVars, histVars>>

\* MutexLedger.GetAccountBalance: the balance is read, the deferred RUnlock runs
MutexRUnlock(r) ==
    /\ engine = "Mutex" /\ status = "running" /\ readerPc[r] = "reading"
    /\ readerPc' = [readerPc EXCEPT ![r] = "idle"]
    /\ UNCHANGED <<engine, seed, script, requestPool, req, firstRun, dbTx, callerCtxDone, status,
                   ledgerVars, walVars, callerVars, lmaxVars, histVars>>

\* LMAXLedger.GetAccountBalance is entered: l.accounts[accountID], no lock
LmaxReadBegin(r) ==
    /\ engine = "LMAX" /\ status = "running" /\ readerPc[r] = "idle"
    /\ readerPc' = [readerPc EXCEPT ![r] = "reading"]
    /\ UNCHANGED <<engine, seed, script, requestPool, req, firstRun, dbTx, callerCtxDone, status,
                   ledgerVars, walVars, callerVars, lmaxVars, histVars>>

\* LMAXLedger.GetAccountBalance: return account.Balance, nil
LmaxReadReturn(r) ==
    /\ engine = "LMAX" /\ status = "running" /\ readerPc[r] = "reading"
    /\ readerPc' = [readerPc EXCEPT ![r] = "idle"]
    /\ UNCHANGED <<engine, seed, script, requestPool, req, firstRun, dbTx, callerCtxDone, status,
                   ledgerVars, walVars, callerVars, lmaxVars, histVars>>

NextReaders ==
    \/ \E p \in Procs, t \in ShutdownInputs : MutexLock(p, t)
    \/ \E p \in Procs : MutexProbe(p)
    \/ \E p \in Procs : MutexWalWrite(p, "ok")
    \/ \E p \in Procs : MutexWalFlush(p, "ok")
    \/ \E p \in Procs : MutexDispatch(p)
    \/ \E p \in Procs : MutexCredit(p)
    \/ \E p \in Procs : MutexUnlock(p)
    \/ \E p \in Procs, t \in ShutdownInputs : LmaxSubmit(p, t)
    \/ \E p \in Procs : LmaxReceive(p)
    \/ RunRecv
    \/ RunProbe
    \/ RunWalWrite("ok")
    \/ RunDispatch
    \/ RunCredit
    \/ \E r \in Readers : MutexRLock(r)
    \/ \E r \in Readers : MutexRUnlock(r)
    \/ \E r \in Readers : LmaxReadBegin(r)
    \/ \E r \in Readers : LmaxReadReturn(r)

SpecReaders == Init /\ [][NextReaders]_vars

\* handleTransfer has debited the source and not yet credited the destination
HalfTransferred ==
    \/ engine = "Mutex" /\ \E p \in Procs : pc[p] = "credit"
    \/ engine = "LMAX" /\ runPc = "credit"

\* C22: in the Mutex engine no reader that holds the shared lock, and no
\* other writer inside PostTransaction, is there while a Transfer has debited
\* its source and not yet credited its destination.
C22_MutexReadersSeeWholeTransfers ==
    engine = "Mutex" =>
        /\ \A r \in Readers : readerPc[r] = "reading" => ~HalfTransferred
        /\ \A p, q \in Procs : (p # q /\ pc[p] = "credit") => pc[q] = "idle"

\* a reader holds the shared lock after a Transfer was applied, while a writer
\* waits for the lock
C22_Witness ==
    /\ engine = "Mutex"
    /\ readerPc["r1"] = "reading"
    /\ "B" \in processedTransactions
    /\ accounts[1] = seed[1] - 1 /\ accounts[2] = seed[2] + 1

\* C23: in the LMAX engine no caller of GetAccountBalance is reading the
\* account map while a Transfer has debited its source and not yet credited
\* its destination.
C23_LmaxReadersSeeWholeTransfers ==
    engine = "LMAX" =>
        \A r \in Readers : readerPc[r] = "reading" => ~HalfTransferred

\* C24: in the LMAX engine the queue never holds more requests than its
\* capacity; a producer's request enters only when there is room (until then
\* the producer stays blocked) and leaves the queue only at the head, into the
\* hands of the run loop.
C24_QueueBoundedNoDrop ==
    [][ (engine = "LMAX" /\ status = "running" /\ status' = "running") =>
            /\ Len(transactionChan') <= chanCap
            /\ \A p \in Procs :
                   (pc[p] = "idle" /\ pc'[p] = "await") =>
                       /\ Len(transactionChan) < chanCap
                       /\ transactionChan' =
                              Append(transactionChan, [Tx |-> tx'[p], owner |-> p])
            /\ transactionChan' # transactionChan =>
                   \/ \E p \in Procs : pc[p] = "idle" /\ pc'[p] = "await"
                   \/ /\ transactionChan # << >>
                      /\ transactionChan' = Tail(transactionChan)
                      /\ runReq' = Head(transactionChan) ]_vars

\* the queue is full and a producer that may post cannot send
C24_Witness ==
    /\ engine = "LMAX" /\ status = "running"
    /\ Len(transactionChan) = chanCap
    /\ \E p \in Procs :
           /\ pc[p] = "idle" /\ posts < MaxPosts
           /\ \A t \in TxInputs : ~ENABLED LmaxSubmit(p, t)

BoundaryBalances == {0, 1, 2, MaxInt}

BoundarySeeds == { (1 :> b) @@ (2 :> 2) : b \in BoundaryBalances }

BoundaryInputs ==
    { Transaction("A", TransactionTypeWithdraw, 1, 0, a) : a \in {0, 1, 2, 3, MaxInt} }
    \cup
    { Transaction("B", TransactionTypeDeposit, 0, 3, 1),
      Transaction("B", TransactionTypeWithdraw, 3, 0, 1),
      Transaction("B", TransactionTypeTransfer, 1, 3, 1),
      Transaction("B", TransactionTypeTransfer, 3, 1, 1) }

InitBoundary ==
    /\ engine \in {"Mutex", "LMAX"}
    /\ seed \in BoundarySeeds
    /\ scriptPos = 0
    /\ script = << >>
    /\ chanCap = QueueCap
    /\ InitCommon

NextBoundary ==
    \/ \E p \in Procs, t \in BoundaryInputs : MutexLock(p, t)
    \/ \E p \in Procs : MutexProbe(p)
    \/ \E p \in Procs : MutexWalWrite(p, "ok")
    \/ \E p \in Procs : MutexWalFlush(p, "ok")
    \/ \E p \in Procs : MutexDispatch(p)
    \/ \E p \in Procs : MutexUnlock(p)
    \/ \E p \in Procs, t \in BoundaryInputs : LmaxSubmit(p, t)
    \/ \E p \in Procs : LmaxReceive(p)
    \/ RunRecv
    \/ RunProbe
    \/ RunWalWrite("ok")
    \/ RunDispatch

SpecBoundary == InitBoundary /\ [][NextBoundary]_vars

\* the account ids a transaction of a known type looks up
Referenced(t) ==
    IF t.Type = TransactionTypeDeposit THEN {t.To}
    ELSE IF t.Type = TransactionTypeWithdraw THEN {t.From}
    ELSE IF t.Type = TransactionTypeTransfer THEN {t.From, t.To}
    ELSE {}

\* C26: a post that names an account the store does not hold (to of a
\* Deposit, from of a Withdraw, either of a Transfer) leaves the switch with
\* ErrAccountNotFound and every balance as it was.
C26_UnknownAccountChangesNothing ==
    [][ /\ \A p \in Procs :
              (/\ engine = "Mutex" /\ status' = "running"
               /\ pc[p] = "apply" /\ pc'[p] # "apply"
               /\ ~(Referenced(tx[p]) \subseteq DOMAIN accounts))
              => (/\ pc'[p] = "ret" /\ result'[p] = ErrAccountNotFound
                  /\ accounts' = accounts)
        /\ (/\ engine = "LMAX" /\ status' = "running"
            /\ runPc = "apply" /\ runPc' # "apply"
            /\ ~(Referenced(runReq.Tx) \subseteq DOMAIN accounts))
           => (/\ runPc' = "select" /\ LastReply = ErrAccountNotFound
               /\ accounts' = accounts) ]_vars

\* a Transfer from an account that could pay, to an account the store does
\* not hold, is about to return ErrAccountNotFound with the source untouched
C26_Witness ==
    /\ engine = "Mutex"
    /\ \E p \in Procs :
           /\ pc[p] = "ret" /\ result[p] = ErrAccountNotFound
           /\ tx[p] = Transaction("B", TransactionTypeTransfer, 1, 3, 1)
           /\ accounts[1] >= 1 /\ accounts = seed

\* C27: on a balance b >= 0 a Withdraw of exactly b returns nil and leaves 0,
\* and a Withdraw of b + 1 returns ErrInsufficientBalance and leaves b; no
\* other balance changes.
WithdrawBoundary(t, err) ==
    LET b == accounts[t.From]
    IN  (t.Type = TransactionTypeWithdraw /\ t.From \in DOMAIN accounts /\ b >= 0) =>
            /\ t.Amount = b =>
                   /\ err = Nil
                   /\ accounts' = [accounts EXCEPT ![t.From] = 0]
            /\ t.Amount = b + 1 =>
                   /\ err = ErrInsufficientBalance
                   /\ accounts' = accounts

ErrDuplicateEntry == "Error 1062: Duplicate entry for key 'uk_ref_id'"

\* mutant: the ids in request order, source first
GetLockIDsSourceFirst(t) ==
    IF t.Type = TransactionTypeTransfer THEN <<t.From, t.To>>
    ELSE IF t.Type = TransactionTypeDeposit THEN <<t.To>>
    ELSE IF t.Type = TransactionTypeWithdraw THEN <<t.From>>
    ELSE << >>

\* Transaction.GetLockIDs
GetLockIDs(t) ==
    IF t.Type = TransactionTypeTransfer
    THEN (IF t.From < t.To THEN <<t.From, t.To>> ELSE <<t.To, t.From>>)
    ELSE IF t.Type = TransactionTypeDeposit THEN <<t.To>>
    ELSE IF t.Type = TransactionTypeWithdraw THEN <<t.From>>
    ELSE << >>

\* MySQLLedger.processTransactionLogic on the loaded rows
processTransactionLogic(tran, userMap) ==
    IF tran.Type = TransactionTypeDeposit THEN handleDeposit(userMap, tran)
    ELSE IF tran.Type = TransactionTypeWithdraw THEN handleWithdraw(userMap, tran)
    ELSE IF tran.Type = TransactionTypeTransfer THEN handleTransfer(userMap, tran)
    ELSE [err |-> Nil, accounts |-> userMap]

\* the callers whose open transaction holds the lock of row id
RowLockedBy(id) == { q \in Procs : id \in dbTx[q].locked }

\* the end of db.Transaction on an error: ROLLBACK, locks released
MySQLRollback(p, err) ==
    /\ dbTx' = [dbTx EXCEPT ![p] = NoDbTx]
    /\ result' = [result EXCEPT ![p] = err]
    /\ pc' = [pc EXCEPT ![p] = "ret"]

\* db.Transaction(func(tx) ...): BEGIN
MySQLBegin(p, t) ==
    /\ engine = "MySQL"
    /\ CanPost(p, t)
    /\ pc' = [pc EXCEPT ![p] = "exists"]
    /\ tx' = [tx EXCEPT ![p] = t]
    /\ posts' = Posted
    /\ UNCHANGED <<engine, seed, sideVars, status, ledgerVars, walVars, mu, result,
                   lmaxVars, crashes, ackedOk, mutations, snapshot, sumBefore,
                   walFaulted, pendingAtShutdown, scriptPos, log>>

\* checkTransactionExists: COUNT of the committed rows with this ref_id
MySQLCheckExists(p) ==
    /\ engine = "MySQL" /\ status = "running" /\ pc[p] = "exists"
    /\ IF tx[p].TransactionID \in processedTransactions
       THEN /\ result' = [result EXCEPT ![p] = Nil]
            /\ pc' = [pc EXCEPT ![p] = "ret"]
       ELSE /\ pc' = [pc EXCEPT ![p] = "lock"]
            /\ UNCHANGED result
    /\ UNCHANGED <<engine, seed, sideVars, status, ledgerVars, walVars, mu, tx,
                   lmaxVars, histVars>>

\* lockAccounts: SELECT ... WHERE id IN lockIDs FOR UPDATE takes the lock of
\* the next row, waiting while another transaction holds it; with every row
\* locked it returns the rows found, as committed
MySQLLockAccounts(p) ==
    /\ engine = "MySQL" /\ status = "running" /\ pc[p] = "lock"
    /\ LET lockIDs == GetLockIDs(tx[p])
           d == dbTx[p]
       IN  IF d.next <= Len(lockIDs)
           THEN LET id == lockIDs[d.next]
                IN  /\ RowLockedBy(id) \subseteq {p}
                    /\ dbTx' = [dbTx EXCEPT ![p].next = d.next + 1,
                                            ![p].locked =
                                                IF id \in DOMAIN accounts
                                                THEN d.locked \cup {id} ELSE d.locked]
                    /\ UNCHANGED pc
           ELSE /\ dbTx' = [dbTx EXCEPT ![p].userMap =
                                            [id \in d.locked |-> accounts[id]]]
                /\ pc' = [pc EXCEPT ![p] = "logic"]
    /\ UNCHANGED <<engine, seed, script, requestPool, req, firstRun, readerPc, callerCtxDone, status,
                   ledgerVars, walVars, mu, tx, result, lmaxVars, histVars>>

\* processTransactionLogic on the loaded rows, then saveUsers
MySQLLogic(p) ==
    /\ engine = "MySQL" /\ status = "running" /\ pc[p] = "logic"
    /\ LET r == processTransactionLogic(tx[p], dbTx[p].userMap)
       IN  IF r.err # Nil
           THEN MySQLRollback(p, r.err)
           ELSE /\ dbTx' = [dbTx EXCEPT ![p].userMap = r.accounts]
                /\ pc' = [pc EXCEPT ![p] = "create"]
                /\ UNCHANGED result
    /\ UNCHANGED <<engine, seed, script, requestPool, req, firstRun, readerPc, callerCtxDone, status,
                   ledgerVars, walVars, mu, tx, lmaxVars, histVars>>

\* mutant: the transactions table has no unique key on ref_id
MySQLCreateTransactionLogNoUniqueKey(p) ==
    /\ engine = "MySQL" /\ status = "running" /\ pc[p] = "create"
    /\ dbTx' = [dbTx EXCEPT ![p].inserted = TRUE]
    /\ pc' = [pc EXCEPT ![p] = "commit"]
    /\ UNCHANGED <<engine, seed, script, requestPool, req, firstRun, readerPc, callerCtxDone, status,
                   ledgerVars, walVars, mu, tx, result, lmaxVars, histVars>>

\* createTransactionLog: INSERT INTO transactions.  The unique key refuses a
\* ref_id that is committed, and makes the insert wait for a transaction
\* that has inserted the same ref_id and not yet ended.
MySQLCreateTransactionLog(p) ==
    /\ engine = "MySQL" /\ status = "running" /\ pc[p] = "create"
    /\ \A q \in Procs \ {p} :
           ~(dbTx[q].inserted /\ tx[q].TransactionID = tx[p].TransactionID)
    /\ IF tx[p].TransactionID \in processedTransactions
       THEN MySQLRollback(p, ErrDuplicateEntry)
       ELSE /\ dbTx' = [dbTx EXCEPT ![p].inserted = TRUE]
            /\ pc' = [pc EXCEPT ![p] = "commit"]
            /\ UNCHANGED result
    /\ UNCHANGED <<engine, seed, script, requestPool, req, firstRun, readerPc, callerCtxDone, status,
                   ledgerVars, walVars, mu, tx, lmaxVars, histVars>>

\* the end of db.Transaction on nil: COMMIT publishes the saved rows and the
\* transactions row and releases the locks
MySQLCommit(p) ==
    /\ engine = "MySQL" /\ status = "running" /\ pc[p] = "commit"
    /\ accounts' = [id \in DOMAIN accounts |->
                       IF id \in DOMAIN dbTx[p].userMap
                       THEN dbTx[p].userMap[id] ELSE accounts[id]]
    /\ processedTransactions' = processedTransactions \cup {tx[p].TransactionID}
    /\ mutations' = Mutated(tx[p].TransactionID, accounts, accounts')
    /\ dbTx' = [dbTx EXCEPT ![p] = NoDbTx]
    /\ result' = [result EXCEPT ![p] = Nil]
    /\ pc' = [pc EXCEPT ![p] = "ret"]
    /\ UNCHANGED <<engine, seed, script, requestPool, req, firstRun, readerPc, callerCtxDone, status,
                   walVars, mu, tx, lmaxVars, posts, crashes, ackedOk, snapshot,
                   sumBefore, walFaulted, pendingAtShutdown, scriptPos, log>>

\* PostTransaction returns what db.Transaction returned
MySQLReturn(p) ==
    /\ engine = "MySQL" /\ status = "running" /\ pc[p] = "ret"
    /\ Returned(p, result[p])
    /\ UNCHANGED <<engine, seed, sideVars, status, ledgerVars, walVars, mu,
                   lmaxVars, posts, crashes, mutations, snapshot, sumBefore,
                   walFaulted, pendingAtShutdown>>

ExternalInputs ==
    { Transaction("A", TransactionTypeTransfer, 1, 2, 1),
      Transaction("B", TransactionTypeTransfer, 2, 1, 1),
      Transaction("B", TransactionTypeTransfer, 1, 1, 1),
      Transaction("A", TransactionTypeDeposit, 0, 1, 1),
      Transaction("B", TransactionTypeWithdraw, 2, 0, 3),
      Transaction("C", TransactionTypeDeposit, 0, 3, 1) }

InitExternal ==
    /\ engine = "MySQL"
    /\ seed = Seed
    /\ scriptPos = 0
    /\ script = << >>
    /\ chanCap = QueueCap
    /\ InitCommon

NextExternal ==
    \/ \E p \in Procs, t \in ExternalInputs : MySQLBegin(p, t)
    \/ \E p \in Procs : MySQLCheckExists(p)
    \/ \E p \in Procs : MySQLLockAccounts(p)
    \/ \E p \in Procs : MySQLLogic(p)
    \/ \E p \in Procs : MySQLCreateTransactionLog(p)
    \/ \E p \in Procs : MySQLCommit(p)
    \/ \E p \in Procs : MySQLReturn(p)

SpecExternal == InitExternal /\ [][NextExternal]_vars

\* p waits in lockAccounts for a row that q has locked
WaitsFor(p, q) ==
    /\ p # q /\ pc[p] = "lock"
    /\ dbTx[p].next <= Len(GetLockIDs(tx[p]))
    /\ GetLockIDs(tx[p])[dbTx[p].next] \in dbTx[q].locked

\* C28: GetLockIDs gives the two ids of a Transfer in ascending order and the
\* single id of a Deposit or Withdraw, and with the row locks taken in that
\* order no two transactions ever wait for each other.
C28_AscendingLockOrderNoDeadlock ==
    /\ \A p \in Procs :
           LET t == tx[p]
               ids == GetLockIDs(t)
           IN  /\ t.Type = TransactionTypeTransfer =>
                      /\ Len(ids) = 2 /\ ids[1] <= ids[2]
                      /\ {ids[1], ids[2]} = {t.From, t.To}
               /\ t.Type = TransactionTypeDeposit => ids = <<t.To>>
               /\ t.Type = TransactionTypeWithdraw => ids = <<t.From>>
    /\ \A p, q \in Procs : ~(WaitsFor(p, q) /\ WaitsFor(q, p))

\* two transfers in opposite directions between accounts 1 and 2 are open
\* together: one holds a row lock, the other waits for it
C28_Witness ==
    \E p, q \in Procs :
        /\ tx[p].Type = TransactionTypeTransfer /\ tx[q].Type = TransactionTypeTransfer
        /\ tx[p].From = 1 /\ tx[p].To = 2 /\ tx[q].From = 2 /\ tx[q].To = 1
        /\ WaitsFor(q, p)

\* C29: a post of an id that is already applied returns nil, also when it
\* started before the first post of that id committed.
C29_DuplicateAlwaysOk ==
    [][ \A p \in Procs :
            (/\ engine = "MySQL" /\ pc[p] # "ret" /\ pc'[p] = "ret"
             /\ tx[p].TransactionID \in processedTransactions)
            => result'[p] = Nil ]_vars

(***************************************************************************)
(* One sequential stream of posts given to both engines: a MutexLedger is  *)
(* built on the seed and an empty WAL and the callers post the stream one  *)
(* entry after the other; then an LMAXLedger is built on the same seed and *)
(* an empty WAL and gets the same stream.  Healthy WAL medium, no crash.   *)
(***************************************************************************)
TwinInputs ==
    { Transaction("A", TransactionTypeDeposit, 0, 1, 1),
      Transaction("B", TransactionTypeWithdraw, 2, 0, 3),
      Transaction("C", TransactionTypeTransfer, 1, 2, 1),
      Transaction("B", TransactionTypeUnknown, 1, 2, 1) }

Streams == UNION { [1 .. n -> TwinInputs] : n \in 1 .. MaxStream }

InitTwin ==
    /\ engine = "Mutex"
    /\ seed = Seed
    /\ scriptPos = 1
    /\ script \in Streams
    /\ chanCap = QueueCap
    /\ InitCommon

StreamDone == scriptPos > Len(script) /\ \A p \in Procs : pc[p] = "idle"

\* the stream has run on the MutexLedger: an LMAXLedger is built on the seed
\* and an empty WAL, and the stream starts again
SecondRun ==
    /\ engine = "Mutex" /\ status = "running"
    /\ ~firstRun.ran
    /\ StreamDone
    /\ firstRun' = [ran |-> TRUE, log |-> log, accounts |-> accounts,
                    processed |-> processedTransactions, walFile |-> walFile]
    /\ engine' = "LMAX"
    /\ accounts' = seed
    /\ processedTransactions' = {}
    /\ walFile' = << >>
    /\ walSynced' = 0
    /\ walErr' = Nil
    /\ ackedOk' = {}
    /\ mutations' = [id \in AllIds |-> 0]
    /\ scriptPos' = 1
    /\ log' = << >>
    /\ UNCHANGED <<seed, script, requestPool, req, readerPc, dbTx, callerCtxDone, status, callerVars,
                   lmaxVars, posts, crashes, snapshot, sumBefore, walFaulted,
                   pendingAtShutdown>>

NextTwin ==
    \/ \E p \in Procs, t \in TwinInputs : MutexLock(p, t)
    \/ \E p \in Procs : MutexProbe(p)
    \/ \E p \in Procs : MutexWalWrite(p, "ok")
    \/ \E p \in Procs : MutexWalFlush(p, "ok")
    \/ \E p \in Procs : MutexDispatch(p)
    \/ \E p \in Procs : MutexCredit(p)
    \/ \E p \in Procs : MutexUnlock(p)
    \/ SecondRun
    \/ \E p \in Procs, t \in TwinInputs : LmaxSubmit(p, t)
    \/ \E p \in Procs : LmaxReceive(p)
    \/ RunRecv
    \/ RunProbe
    \/ RunWalWrite("ok")
    \/ RunDispatch
    \/ RunCredit

SpecTwin == InitTwin /\ [][NextTwin]_vars

\* C30: on the same sequential stream the LMAX engine returns for every post
\* what the Mutex engine returned, and ends with the same balances, the same
\* processedTransactions and the same WAL lines.
C30_EnginesAgree ==
    (engine = "LMAX" /\ firstRun.ran) =>
        /\ \A i \in 1 .. Len(log) : log[i].result = firstRun.log[i].result
        /\ StreamDone =>
               /\ accounts = firstRun.accounts
               /\ processedTransactions = firstRun.processed
               /\ walFile = firstRun.walFile

\* the ids of the records of a WAL file that decode to a Transaction
RecordIds(file) ==
    { JSONUnmarshal(file[i]).tran.TransactionID :
          i \in { j \in 1 .. Len(file) : JSONUnmarshal(file[j]).err = Nil } }

\* C31: every id in processedTransactions has a record in the WAL, in live
\* operation and after recovery; a running ledger inserts an id only as the
\* last act of the apply stage of that transaction, with nil as its result
\* and its record written and synced.
C31_RecordedIdsAreLogged ==
    [][ /\ processedTransactions' \subseteq RecordIds(walFile')
        /\ (/\ status = "running" /\ status' = "running"
            /\ processedTransactions' # processedTransactions)
           => (/\ processedTransactions' =
                      processedTransactions \cup {InHandTx.TransactionID}
               /\ AppliesNow(InHandTx)
               /\ Durable(InHandTx)
               /\ IF engine = "Mutex"
                  THEN \E p \in Procs : mu = p /\ result'[p] = Nil
                  ELSE LastReply = Nil) ]_vars

\* ids are in the index both ways: one replayed from the WAL by the
\* constructor after a crash, one inserted by a post after the restart
C31_Witness ==
    /\ status = "running" /\ crashes = 1
    /\ processedTransactions = {"A", "B"}
    /\ mutations["A"] = 0 /\ mutations["B"] = 1
    /\ \E p \in Procs : pc[p] = "ret" /\ result[p] = Nil /\ tx[p].TransactionID = "B"

\* C32: when the constructor succeeds, processedTransactions holds exactly
\* the ids of the records of the WAL (each replayed with success), and a post
\* of an id in the index leaves the probe with nil, the WAL and every balance
\* as they were.
C32_ReplayedIdsAreSuppressed ==
    [][ /\ (status = "crashed" /\ status' = "running")
           => processedTransactions' = RecordIds(walFile)
        /\ \A p \in Procs :
              (/\ engine = "Mutex" /\ status = "running" /\ status' = "running"
               /\ pc[p] = "probe" /\ pc'[p] # "probe"
               /\ tx[p].TransactionID \in processedTransactions)
              => (/\ pc'[p] = "ret" /\ result'[p] = Nil
                  /\ UNCHANGED <<accounts, processedTransactions, walFile>>)
        /\ (/\ engine = "LMAX" /\ status = "running" /\ status' = "running"
            /\ runPc = "probe" /\ runPc' # "probe"
            /\ runReq.Tx.TransactionID \in processedTransactions)
           => (/\ runPc' = "select" /\ LastReply = Nil
               /\ UNCHANGED <<accounts, processedTransactions, walFile>>) ]_vars

\* after a crash and a restart a post of an id that only the replay put in
\* the index has been answered nil, with the WAL still the one record the
\* constructor found
C32_Witness ==
    /\ status = "running" /\ crashes = 1 /\ engine = "LMAX"
    /\ Len(walFile) = 1
    /\ \E p \in Procs :
           /\ pc[p] = "await" /\ resultChan[p] = <<Nil>>
           /\ tx[p].TransactionID \in processedTransactions
           /\ mutations[tx[p].TransactionID] = 0
           /\ RecordIds(walFile) = {tx[p].TransactionID}

\* the number of records of transaction t in a WAL file
RecordCount(file, t) ==
    Cardinality({ i \in 1 .. Len(file) : file[i] = JSONEncode(t) })

\* the posts of the stream that have returned and were posts of t
ReturnedPostsOf(t) == { i \in 1 .. Len(log) : script[i] = t }

\* C33: a post that fails business validation has left its record in the WAL
\* and its id out of the index, so the next post of it is written again: when
\* every post of t so far has returned a business error, the WAL holds as many
\* records of t as there were posts of it.
C33_FailedPostsLeaveOneRecordEach ==
    \A t \in TwinInputs :
        (/\ \A p \in Procs : pc[p] = "idle"
         /\ \A i \in ReturnedPostsOf(t) : log[i].result \in BusinessErrors)
        => RecordCount(walFile, t) = Cardinality(ReturnedPostsOf(t))

\* the same Withdraw has failed twice with ErrInsufficientBalance and the WAL
\* holds its record twice
C33_Witness ==
    LET t == Transaction("B", TransactionTypeWithdraw, 2, 0, 3)
    IN  /\ engine = "LMAX"
        /\ script = <<t, t>>
        /\ Len(log) = 2
        /\ log[1].result = ErrInsufficientBalance /\ log[2].result = ErrInsufficientBalance
        /\ walFile = <<JSONEncode(t), JSONEncode(t)>>
        /\ processedTransactions = {}

(***************************************************************************)
(* Transfers of every outcome, also from an account to itself, on a        *)
(* healthy WAL medium; account 2 starts on a small balance or on the       *)
(* largest one.                                                            *)
(***************************************************************************)
TransferSeeds == { Seed, (1 :> 1) @@ (2 :> MaxInt) }

TransferInputs ==
    { Transaction("A", TransactionTypeTransfer, 1, 2, 1),
      Transaction("A", TransactionTypeTransfer, 1, 2, 2),
      Transaction("B", TransactionTypeTransfer, 1, 3, 1),
      Transaction("B", TransactionTypeTransfer, 3, 2, 1),
      Transaction("B", TransactionTypeTransfer, 1, 2, 0 - 1),
      Transaction("C", TransactionTypeTransfer, 1, 1, 1),
      Transaction("C", TransactionTypeTransfer, 1, 1, 2) }

InitTransfers ==
    /\ engine \in {"Mutex", "LMAX"}
    /\ seed \in TransferSeeds
    /\ scriptPos = 0
    /\ script = << >>
    /\ chanCap = QueueCap
    /\ InitCommon

NextTransfers ==
    \/ \E p \in Procs, t \in TransferInputs : MutexLock(p, t)
    \/ \E p \in Procs : MutexProbe(p)
    \/ \E p \in Procs : MutexWalWrite(p, "ok")
    \/ \E p \in Procs : MutexWalFlush(p, "ok")
    \/ \E p \in Procs : MutexDispatch(p)
    \/ \E p \in Procs : MutexCredit(p)
    \/ \E p \in Procs : MutexUnlock(p)
    \/ \E p \in Procs, t \in TransferInputs : LmaxSubmit(p, t)
    \/ \E p \in Procs : LmaxReceive(p)
    \/ RunRecv
    \/ RunProbe
    \/ RunWalWrite("ok")
    \/ RunDispatch
    \/ RunCredit

SpecTransfers == InitTransfers /\ [][NextTransfers]_vars

\* a Transfer leaves handleTransfer with err, from the stage it was at: every
\* balance is what it was when handleTransfer was entered (after the debit
\* that is the source's balance plus the amount)
TransferFailedWhole(t, stage, err) ==
    (t.Type = TransactionTypeTransfer /\ err # Nil) =>
        IF stage = "apply"
        THEN accounts' = accounts
        ELSE accounts' = [accounts EXCEPT ![t.From] = @ + t.Amount]

\* C34: a Transfer that returns an error leaves the balances of from and to
\* (and every other) as they were before it: no debit stays without its
\* credit.
C34_FailedTransferChangesNothing ==
    [][ /\ \A p \in Procs :
              (/\ engine = "Mutex" /\ status' = "running"
               /\ pc[p] \in {"apply", "credit"} /\ pc'[p] = "ret")
              => TransferFailedWhole(tx[p], pc[p], result'[p])
        /\ (/\ engine = "LMAX" /\ status' = "running"
            /\ runPc \in {"apply", "credit"} /\ runPc' = "select")
           => TransferFailedWhole(runReq.Tx, runPc, LastReply) ]_vars

\* a Transfer of more than the source holds is about to return
\* ErrInsufficientBalance, the balances being the seed's
C34_Witness ==
    /\ engine = "Mutex"
    /\ \E p \in Procs :
           /\ pc[p] = "ret" /\ result[p] = ErrInsufficientBalance
           /\ tx[p] = Transaction("A", TransactionTypeTransfer, 1, 2, 2)
           /\ accounts = seed /\ Len(walFile) = 1

\* a Transfer from an existing account to itself, through handleTransfer:
\* refused at the debit with nothing changed, or debited and then credited
\* back to the balance it had, no other balance touched
SelfTransferNoOp(t, stage, stageAfter, err) ==
    (t.Type = TransactionTypeTransfer /\ t.From = t.To /\ t.From \in DOMAIN accounts) =>
        /\ \A b \in DOMAIN accounts \ {t.From} : accounts'[b] = accounts[b]
        /\ (stage = "apply" /\ stageAfter # "credit") => (err # Nil /\ accounts' = accounts)
        /\ stage = "credit" => (err = Nil /\ SumBalances(accounts') = sumBefore)

\* C35: a Transfer whose from and to are the same existing account leaves
\* every balance as it was before the post, whether it is refused or succeeds.
C35_SelfTransferChangesNothing ==
    [][ /\ \A p \in Procs :
              (/\ engine = "Mutex" /\ status' = "running"
               /\ pc[p] \in {"apply", "credit"} /\ pc'[p] # pc[p])
              => SelfTransferNoOp(tx[p], pc[p], pc'[p], result'[p])
        /\ (/\ engine = "LMAX" /\ status' = "running"
            /\ runPc \in {"apply", "credit"} /\ runPc' # runPc)
           => SelfTransferNoOp(runReq.Tx, runPc, runPc',
                               IF runPc' = "select" THEN LastReply ELSE Nil) ]_vars

\* a Transfer of 1 from account 1 to account 1 has returned nil: its id is
\* recorded, the balances are the seed's
C35_Witness ==
    /\ engine = "LMAX"
    /\ processedTransactions = {"C"}
    /\ mutations["C"] = 1
    /\ accounts = seed
    /\ \E p \in Procs :
           /\ tx[p] = Transaction("C", TransactionTypeTransfer, 1, 1, 1)
           /\ resultChan[p] = <<Nil>>

(***************************************************************************)
(* The LMAX ledger with its request envelopes: requestPool hands a caller  *)
(* an envelope that was Put back or a new one, the queue carries the       *)
(* envelope, and the run loop answers on the envelope's Result channel.    *)
(* Here resultChan is indexed by envelope and the owner of a queued        *)
(* request is its envelope.  Healthy WAL medium, no crash.                 *)
(***************************************************************************)
PoolInputs ==
    ShutdownInputs \cup { Transaction("C", TransactionTypeWithdraw, 2, 0, 3) }

\* the envelopes callers hold between Get and Put
HeldEnvelopes == { req[q] : q \in Procs } \ {NoEnvelope}

\* mutant: every caller uses whatever envelope there is, held by another or not
PooledSubmitSharedEnvelope(p, t) ==
    /\ engine = "LMAX"
    /\ CanPost(p, t)
    /\ Len(transactionChan) < chanCap
    /\ \E e \in Envelopes :
           /\ transactionChan' = Append(transactionChan, [Tx |-> t, owner |-> e])
           /\ resultChan' = [resultChan EXCEPT ![e] = << >>]
           /\ requestPool' = requestPool \ {e}
           /\ req' = [req EXCEPT ![p] = e]
    /\ pc' = [pc EXCEPT ![p] = "await"]
    /\ tx' = [tx EXCEPT ![p] = t]
    /\ posts' = Posted
    /\ UNCHANGED <<engine, seed, script, firstRun, readerPc, dbTx, callerCtxDone,
                   status, ledgerVars, walVars, mu, result,
                   runLoop, runPc, runReq, ctxDone, chanCap,
                   crashes, ackedOk, mutations, snapshot, sumBefore, walFaulted,
                   pendingAtShutdown, scriptPos, log>>

\* postTransactionInternal up to the send: requestPool.Get (an envelope Put
\* back, or a new one), req.Tx = tran, the drain of req.Result, the send
PooledSubmit(p, t) ==
    /\ engine = "LMAX"
    /\ CanPost(p, t)
    /\ Len(transactionChan) < chanCap
    /\ \E e \in Envelopes \ HeldEnvelopes :
           /\ transactionChan' = Append(transactionChan, [Tx |-> t, owner |-> e])
           /\ resultChan' = [resultChan EXCEPT ![e] = << >>]
           /\ requestPool' = requestPool \ {e}
           /\ req' = [req EXCEPT ![p] = e]
    /\ pc' = [pc EXCEPT ![p] = "await"]
    /\ tx' = [tx EXCEPT ![p] = t]
    /\ posts' = Posted
    /\ UNCHANGED <<engine, seed, script, firstRun, readerPc, dbTx, callerCtxDone,
                   status, ledgerVars, walVars, mu, result,
                   runLoop, runPc, runReq, ctxDone, chanCap,
                   crashes, ackedOk, mutations, snapshot, sumBefore, walFaulted,
                   pendingAtShutdown, scriptPos, log>>

\* mutant: a caller that finds no result yet gives up, Puts the envelope back
\* and returns
PooledReceiveAbandons(p) ==
    /\ engine = "LMAX" /\ status = "running" /\ pc[p] = "await"
    /\ LET e == req[p]
       IN  /\ resultChan' = [resultChan EXCEPT ![e] = IF @ = << >> THEN @ ELSE Tail(@)]
           /\ requestPool' = requestPool \cup {e}
           /\ req' = [req EXCEPT ![p] = NoEnvelope]
           /\ Returned(p, IF resultChan[e] = << >> THEN "context canceled"
                          ELSE Head(resultChan[e]))
    /\ UNCHANGED <<engine, seed, script, firstRun, readerPc, dbTx, callerCtxDone,
                   status, ledgerVars, walVars, mu,
                   transactionChan, runLoop, runPc, runReq, ctxDone, chanCap,
                   posts, crashes, mutations, snapshot, sumBefore, walFaulted,
                   pendingAtShutdown>>

\* err := <-req.Result; requestPool.Put(req); return err
PooledReceive(p) ==
    /\ engine = "LMAX" /\ status = "running" /\ pc[p] = "await"
    /\ LET e == req[p]
       IN  /\ resultChan[e] # << >>
           /\ resultChan' = [resultChan EXCEPT ![e] = Tail(@)]
           /\ requestPool' = requestPool \cup {e}
           /\ req' = [req EXCEPT ![p] = NoEnvelope]
           /\ Returned(p, Head(resultChan[e]))
    /\ UNCHANGED <<engine, seed, script, firstRun, readerPc, dbTx, callerCtxDone,
                   status, ledgerVars, walVars, mu,
                   transactionChan, runLoop, runPc, runReq, ctxDone, chanCap,
                   posts, crashes, mutations, snapshot, sumBefore, walFaulted,
                   pendingAtShutdown>>

InitPool ==
    /\ engine = "LMAX"
    /\ seed = Seed
    /\ status = "running"
    /\ accounts = seed
    /\ processedTransactions = {}
    /\ walFile = << >>
    /\ walSynced = 0
    /\ walErr = Nil
    /\ mu = NoProc
    /\ pc = [p \in Procs |-> "idle"]
    /\ tx = [p \in Procs |-> NoTx]
    /\ result = [p \in Procs |-> Nil]
    /\ transactionChan = << >>
    /\ resultChan = [e \in Envelopes |-> << >>]
    /\ runLoop = "run"
    /\ runPc = "select"
    /\ runReq = NoReq
    /\ ctxDone = FALSE
    /\ chanCap = QueueCap
    /\ posts = 0
    /\ crashes = 0
    /\ ackedOk = {}
    /\ mutations = [id \in AllIds |-> 0]
    /\ snapshot = NoSnapshot
    /\ sumBefore = 0
    /\ walFaulted = FALSE
    /\ pendingAtShutdown = << >>
    /\ scriptPos = 0
    /\ log = << >>
    /\ script = << >>
    /\ firstRun = NoRun
    /\ readerPc = [r \in Readers |-> "idle"]
    /\ dbTx = [p \in Procs |-> NoDbTx]
    /\ callerCtxDone = [p \in Procs |-> FALSE]
    /\ requestPool = {}
    /\ req = [p \in Procs |-> NoEnvelope]

NextPool ==
    \/ \E p \in Procs, t \in PoolInputs : PooledSubmit(p, t)
    \/ \E p \in Procs : PooledReceive(p)
    \/ RunRecv
    \/ RunProbe
    \/ RunWalWrite("ok")
    \/ RunDispatch
    \/ RunCredit

SpecPool == InitPool /\ [][NextPool]_vars

\* the requests on envelope e that the run loop has not answered yet: in the
\* queue, or in the hands of the run loop
Unanswered(e) ==
    { i \in 1 .. Len(transactionChan) : transactionChan[i].owner = e }
    \cup (IF runPc # "select" /\ runReq.owner = e THEN {0} ELSE {})

UnansweredTx(e, i) == IF i = 0 THEN runReq.Tx ELSE transactionChan[i].Tx

\* C36: a waiting caller's envelope is its own alone and carries exactly one
\* thing: its request, with its own transaction, not yet answered, or else
\* the one result the run loop computed for that request (nil with the id
\* recorded, or the refusal of its own Withdraw); an envelope in the pool
\* carries neither a request nor a result.  So a call receives one
\* result, that of its own transaction.
C36_OneResultPerCallItsOwn ==
    /\ \A p \in Procs :
           pc[p] = "await" =>
               /\ req[p] \in Envelopes
               /\ \A q \in Procs \ {p} : req[q] # req[p]
               /\ Cardinality(Unanswered(req[p])) + Len(resultChan[req[p]]) = 1
               /\ \A i \in Unanswered(req[p]) : UnansweredTx(req[p], i) = tx[p]
               /\ resultChan[req[p]] = <<Nil>> =>
                      tx[p].TransactionID \in processedTransactions
               /\ (resultChan[req[p]] # << >> /\ resultChan[req[p]] # <<Nil>>) =>
                      /\ tx[p].Type = TransactionTypeWithdraw
                      /\ resultChan[req[p]] = <<ErrInsufficientBalance>>
    /\ \A e \in Envelopes \ HeldEnvelopes :
           Unanswered(e) = {} /\ resultChan[e] = << >>

\* the envelope a call Put back is in use a second time and carries the
\* result of the second call's Withdraw, which that call has yet to receive
C36_Witness ==
    \E q \in Procs :
        /\ pc[q] = "await"
        /\ tx[q] = Transaction("C", TransactionTypeWithdraw, 2, 0, 3)
        /\ resultChan[req[q]] = <<ErrInsufficientBalance>>
        /\ ackedOk = {"A"}
        /\ requestPool = {}
        /\ Len(walFile) = 2 /\ walFile[2] = JSONEncode(tx[q])

\* C37: from the moment the run loop takes a request to the moment it sends
\* the result, the Result channel of the request's envelope is empty, so the
\* send never blocks.
C37_ResultSlotEmptyAtSend ==
    /\ \A e \in Envelopes : Len(resultChan[e]) <= 1
    /\ (engine = "LMAX" /\ runPc # "select") => resultChan[runReq.owner] = << >>

\* the run loop is about to answer on an envelope that has carried a result
\* before
C37_Witness ==
    /\ engine = "LMAX" /\ runPc = "apply"
    /\ ackedOk # {}
    /\ runReq.owner \in Envelopes
    /\ \E p \in Procs : req[p] = runReq.owner /\ pc[p] = "await"
    /\ requestPool = {}
    /\ posts = 2

(***************************************************************************)
(* Termination of a post in the LMAX ledger.  The call is split at its     *)
(* blocking points: the send on transactionChan (blocks while the queue is *)
(* full) and the receive on req.Result.  run has been started and ctx is   *)
(* never cancelled.                                                        *)
(***************************************************************************)
\* requestPool.Get, req.Tx = tran, the drain of req.Result
PoolCall(p, t) ==
    /\ engine = "LMAX"
    /\ CanPost(p, t)
    /\ \E e \in Envelopes \ HeldEnvelopes :
           /\ resultChan' = [resultChan EXCEPT ![e] = << >>]
           /\ requestPool' = requestPool \ {e}
           /\ req' = [req EXCEPT ![p] = e]
    /\ pc' = [pc EXCEPT ![p] = "send"]
    /\ tx' = [tx EXCEPT ![p] = t]
    /\ posts' = Posted
    /\ UNCHANGED <<engine, seed, script, firstRun, readerPc, dbTx, callerCtxDone,
                   status, ledgerVars, walVars, mu, result,
                   transactionChan, runLoop, runPc, runReq, ctxDone, chanCap,
                   crashes, ackedOk, mutations, snapshot, sumBefore, walFaulted,
                   pendingAtShutdown, scriptPos, log>>

\* mutant: the send completes but the request never reaches the queue
PoolSendLost(p) ==
    /\ engine = "LMAX" /\ status = "running" /\ pc[p] = "send"
    /\ Len(transactionChan) < chanCap
    /\ pc' = [pc EXCEPT ![p] = "await"]
    /\ UNCHANGED <<engine, seed, sideVars, status, ledgerVars, walVars, mu, tx, result,
                   transactionChan, resultChan, runLoop, runPc, runReq, ctxDone, chanCap,
                   histVars>>

\* l.transactionChan <- req
PoolSend(p) ==
    /\ engine = "LMAX" /\ status = "running" /\ pc[p] = "send"
    /\ Len(transactionChan) < chanCap
    /\ transactionChan' = Append(transactionChan, [Tx |-> tx[p], owner |-> req[p]])
    /\ pc' = [pc EXCEPT ![p] = "await"]
    /\ UNCHANGED <<engine, seed, sideVars, status, ledgerVars, walVars, mu, tx, result,
                   resultChan, runLoop, runPc, runReq, ctxDone, chanCap,
                   histVars>>

\* one step of the run goroutine
RunStep ==
    \/ RunRecv
    \/ RunProbe
    \/ \E outcome \in WriteOutcomes : RunWalWrite(outcome)
    \/ RunDispatch
    \/ RunCredit

NextPoolFair ==
    \/ \E p \in Procs, t \in PoolInputs : PoolCall(p, t)
    \/ \E p \in Procs : PoolSend(p)
    \/ \E p \in Procs : PooledReceive(p)
    \/ RunStep

\* The Go scheduler runs every runnable goroutine, and a channel hands a
\* free slot to its blocked senders in arrival order: the run goroutine and
\* a caller whose result is there keep moving (weak fairness), and a caller
\* blocked at the send gets in although the queue fills again in between
\* (strong fairness).
PoolFairness ==
    /\ WF_vars(RunStep)
    /\ \A p \in Procs : WF_vars(PooledReceive(p))
    /\ \A p \in Procs : SF_vars(PoolSend(p))

SpecPoolFair == InitPool /\ [][NextPoolFair]_vars /\ PoolFairness

\* C38: with run started and no shutdown, every call of PostTransaction that
\* has begun (blocked at the send or waiting for its result) returns.
C38_EveryPostReturns ==
    \A p \in Procs : (pc[p] \in {"send", "await"}) ~> (pc[p] = "idle")

\* a caller is blocked at the send by a full queue while another waits for
\* its result
C38_Witness ==
    \E p, q \in Procs :
        /\ p # q
        /\ pc[p] = "send" /\ pc[q] = "await"
        /\ Len(transactionChan) = chanCap
        /\ runLoop = "run" /\ ~ctxDone

(***************************************************************************)
(* Replay of a WAL that holds several records of one id                    *)
(***************************************************************************)
\* the replay as it would be if a record whose id is already recorded were
\* skipped, the way the live path skips it at its probe
RECURSIVE RecoverLoopOncePerId(_, _, _)
RecoverLoopOncePerId(accts, processed, tranHistory) ==
    IF tranHistory = << >>
    THEN [err |-> Nil, accounts |-> accts, processed |-> processed]
    ELSE IF Head(tranHistory).TransactionID \in processed
         THEN RecoverLoopOncePerId(accts, processed, Tail(tranHistory))
         ELSE LET r == applyRecoverTransaction(accts, processed, Head(tranHistory))
              IN  IF r.err # Nil THEN r
                  ELSE RecoverLoopOncePerId(r.accounts, r.processed, Tail(tranHistory))

\* C39: a restart that succeeds leaves the balances of a replay in which each
\* transaction id is applied at most once, however many records of the id
\* the WAL holds.
C39_ReplayAppliesIdOnce ==
    [][ (status = "crashed" /\ status' = "running")
          => accounts' = RecoverLoopOncePerId(seed, {},
                             ReadAll(walFile, << >>, << >>).tranHistory).accounts ]_vars

\* C40: posts of one id that run side by side in the MySQL ledger change the
\* balances at most once.  Balances change only at the COMMIT of a post whose
\* id has no committed transactions row; a post that reaches its INSERT with
\* the id committed gets the duplicate-key error and rolls back, its saved
\* rows discarded.
C40_ConcurrentSameIdChangesOnce ==
    [][ /\ \A id \in AllIds : mutations'[id] <= 1
        /\ accounts' # accounts =>
               \E p \in Procs : /\ pc[p] = "commit" /\ pc'[p] = "ret"
                                /\ tx[p].TransactionID \notin processedTransactions
        /\ \A p \in Procs :
               (/\ pc[p] = "create" /\ pc'[p] # "create"
                /\ tx[p].TransactionID \in processedTransactions)
               => /\ pc'[p] = "ret" /\ result'[p] = ErrDuplicateEntry
                  /\ dbTx'[p] = NoDbTx
                  /\ accounts' = accounts
                  /\ processedTransactions' = processedTransactions ]_vars

\* two posts of id A passed the probe together; one committed and changed a
\* balance, the other was refused at its INSERT
C40_Witness ==
    \E p, q \in Procs :
        /\ p # q /\ engine = "MySQL"
        /\ pc[p] = "ret" /\ result[p] = ErrDuplicateEntry /\ tx[p].TransactionID = "A"
        /\ pc[q] = "ret" /\ result[q] = Nil /\ tx[q].TransactionID = "A"
        /\ mutations["A"] = 1
        /\ accounts # seed

====
